---- MODULE Spec2Model ----
(***************************************************************************)
(* Model of pyscf/embcc/cluster.py: the Cluster object of the embedded     *)
(* correlation (EmbCC) scheme.                                             *)
(*                                                                         *)
(* Numbers.  Occupations and density-matrix eigenvalues are fixed-point    *)
(* integers in units of 1e-8, so that 1.0 is Unit and the default          *)
(* dmet_bath_tol of 1e-8 is 1.                                             *)
(*                                                                         *)
(* Orbitals.  A coefficient matrix is the sequence of its columns, and a   *)
(* column (an orbital) is represented by its mean-field occupation per     *)
(* spin, i.e. the diagonal element of C^T S (D/2) S C for that column.     *)
(* The number of columns C.shape[-1] is the length of the sequence.        *)
(*                                                                         *)
(* Python None is NoneVal for names and numbers and NoneSeq for arrays     *)
(* and lists; an attribute that has never been assigned is Unset.          *)
(***************************************************************************)
EXTENDS Integers, Sequences, FiniteSets, TLC

Unit == 10^8

NoneVal == "None"

NoneSeq == << -1 >>

Unset == << -2 >>

NoCluster == [exists |-> FALSE]

\* eris = None
NoEris == [made_by |-> NoneVal, frozen |-> NoneSeq]

(***************************************************************************)
(* Bounds of the model.                                                    *)
(***************************************************************************)
\* Largest number of columns of a C_local handed to the constructor.
MaxLocal == 2

\* Number of mean-field orbitals (columns of mf.mo_coeff); C_local and C_env
\* together span them.
NMO == 4

\* Cap on the iteration counter, so that the counter stays finite.
MaxIteration == 2

ClusterIds == {1, 2}

(***************************************************************************)
(* Small helpers.                                                          *)
(***************************************************************************)
Abs(x) == IF x < 0 THEN -x ELSE x

Min2(a, b) == IF a < b THEN a ELSE b

\* list(range(a, b))
Range(a, b) == [i \in 1..(IF b > a THEN b - a ELSE 0) |-> a + i - 1]

\* Python truthiness of a solver name: None and "" are falsy.
Truthy(x) == x # NoneVal /\ x # ""

\* x or y
Or(x, y) == IF Truthy(x) THEN x ELSE y

\* numpy.isclose(a, b, atol=atol) with the default rtol=1e-5 (NumpyRtolInv is
\* 1/rtol):  |a - b| <= atol + rtol*|b|
NumpyRtolInv == 10^5

IsClose(a, b, atol) == Abs(a - b) <= atol + (Abs(b) \div NumpyRtolInv)

\* numpy.allclose(C, b, atol=atol) over the entries of a vector
AllClose(v, b, atol) == \A i \in 1..Len(v) : IsClose(v[i], b, atol)

(***************************************************************************)
(* The base (EmbCC) object: its validity sets.                             *)
(***************************************************************************)
VALID_SOLVERS == {NoneVal, "MP2", "CCSD", "CISD", "FCI-spin0", "FCI-spin1"}

VALID_BATH_TYPES == {NoneVal, "full", "power", "matsubara", "mp2-natorb"}

(***************************************************************************)
(* State.                                                                  *)
(*   cl    base.clusters: cluster id -> the Cluster object's attributes,   *)
(*         or NoCluster while no such object has been constructed          *)
(*   last  the most recent call: operation, cluster, arguments, the        *)
(*         exception it raised ("none" if it returned) and what it         *)
(*         returned                                                        *)
(*   mf    base.mf, the mean-field object shared by all clusters: which    *)
(*         function each of its methods is bound to, and its data          *)
(*   base  the amplitude arrays of the base object: the accumulators T1,   *)
(*         T2 and the reference amplitudes tccT1, tccT2; an array is       *)
(*         the one-element sequence of one of its elements, None is        *)
(*         NoArray                                                         *)
(***************************************************************************)
VARIABLES cl, last, mf, base

vars == <<cl, last, mf, base>>

\* The mean-field object as the driver hands it over.
MeanField ==
    [get_hcore |-> "get_hcore", get_ovlp |-> "get_ovlp",
     get_fock |-> "get_fock", make_rdm1 |-> "make_rdm1",
     mo_energy |-> "mo_energy", mo_coeff |-> "mo_coeff",
     mo_occ |-> "mo_occ", e_tot |-> "e_tot"]

\* An amplitude array that is None
NoArray == << >>

\* The amplitude arrays of the base object before any cluster has run.
BaseObject ==
    [T1 |-> NoArray, T2 |-> NoArray, tccT1 |-> NoArray, tccT2 |-> NoArray]

(***************************************************************************)
(* Cluster.set_default_attributes                                          *)
(***************************************************************************)
DefaultAttributes ==
    [ C_bath |-> NoneSeq, C_occclst |-> NoneSeq, C_virclst |-> NoneSeq,
      C_occbath |-> NoneSeq, C_virbath |-> NoneSeq,
      e_delta_mp2 |-> 0,
      active |-> NoneSeq, active_occ |-> NoneSeq, active_vir |-> NoneSeq,
      frozen |-> NoneSeq, frozen_occ |-> NoneSeq, frozen_vir |-> NoneSeq,
      mo_coeff |-> NoneSeq, mo_occ |-> NoneSeq, eris |-> NoEris,
      refdata_out |-> {},
      amplitudes |-> {},
      iteration |-> 0,
      converged |-> FALSE,
      e_corr |-> 0,
      e_corr_full |-> 0 ]

set_default_attributes(self) == DefaultAttributes @@ self

\* Cluster.size
size(self) == Len(self.C_local)

(***************************************************************************)
(* Cluster.__init__(base, cluster_id, name, C_local, C_env, solver,        *)
(*                  bath_type, **kwargs)                                   *)
(* The result is the exception raised ("none") and the object built.       *)
(***************************************************************************)
\* The constructor without its test for an empty fragment
InitCheckLocal_never(C_local) == FALSE

InitCheckLocal(C_local) == Len(C_local) = 0

\* The constructor without its test of the solver name
InitCheckSolver_never(solver) == FALSE

InitCheckSolver(solver) == solver \notin VALID_SOLVERS

InitCheckBathType(bath_type) == bath_type \notin VALID_BATH_TYPES

\* The constructor testing the bath type before the solver name
ClusterInit_bathfirst(id, C_local, C_env, solver, bath_type, kwargs) ==
    IF InitCheckLocal(C_local)
    THEN [err |-> "ValueError: No local orbitals", self |-> NoCluster]
    ELSE IF InitCheckBathType(bath_type)
    THEN [err |-> "ValueError: Unknown bath type", self |-> NoCluster]
    ELSE IF InitCheckSolver(solver)
    THEN [err |-> "ValueError: Unknown solver", self |-> NoCluster]
    ELSE [err |-> "none",
          self |-> set_default_attributes(
                     [ exists |-> TRUE,
                       id |-> id,
                       C_local |-> C_local,
                       C_env |-> C_env,
                       solver |-> solver,
                       bath_type |-> bath_type,
                       dmet_bath_tol |-> kwargs.dmet_bath_tol,
                       symmetry_factor |-> kwargs.symmetry_factor,
                       coupled_bath |-> kwargs.coupled_bath,
                       nelectron_target |-> kwargs.nelectron_target,
                       refdata_in |-> kwargs.refdata,
                       maxiter |-> kwargs.maxiter,
                       solver_options |-> kwargs.solver_options,
                       C_occenv |-> Unset, C_virenv |-> Unset,
                       C_occact |-> Unset, C_viract |-> Unset ]) ]

ClusterInit(id, C_local, C_env, solver, bath_type, kwargs) ==
    IF InitCheckLocal(C_local)
    THEN [err |-> "ValueError: No local orbitals", self |-> NoCluster]
    ELSE IF InitCheckSolver(solver)
    THEN [err |-> "ValueError: Unknown solver", self |-> NoCluster]
    ELSE IF InitCheckBathType(bath_type)
    THEN [err |-> "ValueError: Unknown bath type", self |-> NoCluster]
    ELSE [err |-> "none",
          self |-> set_default_attributes(
                     [ exists |-> TRUE,
                       id |-> id,
                       C_local |-> C_local,
                       C_env |-> C_env,
                       solver |-> solver,
                       bath_type |-> bath_type,
                       dmet_bath_tol |-> kwargs.dmet_bath_tol,
                       symmetry_factor |-> kwargs.symmetry_factor,
                       coupled_bath |-> kwargs.coupled_bath,
                       nelectron_target |-> kwargs.nelectron_target,
                       refdata_in |-> kwargs.refdata,
                       maxiter |-> kwargs.maxiter,
                       solver_options |-> kwargs.solver_options,
                       C_occenv |-> Unset, C_virenv |-> Unset,
                       C_occact |-> Unset, C_viract |-> Unset ]) ]

(***************************************************************************)
(* Numerical kernels.                                                      *)
(***************************************************************************)
Reverse(s) == [i \in 1..Len(s) |-> s[Len(s) + 1 - i]]

\* numpy.hstack
hstack(A, B) == A \o B

\* numpy.hsplit(C, [n])
hsplit(C, n) == <<SubSeq(C, 1, n), SubSeq(C, n + 1, Len(C))>>

\* sum(mask): the number of entries of e that satisfy the test
CountAbove(e, x) == Cardinality({i \in 1..Len(e) : e[i] > x})

\* What numpy.linalg.eigh can return as eigenvalues of an n x n matrix: an
\* ascending sequence over the values vals.
EighValues(n, vals) ==
    {e \in [1..n -> vals] : \A i \in 1..(n - 1) : e[i] <= e[i + 1]}

\* Cluster.get_occup(C): diagonal of C^T S D S C, D the spin-summed 1-RDM.
get_occup(C) == [i \in 1..Len(C) |-> 2 * C[i]]

\* The tolerance test of diagonalize_cluster_dm:
\*   np.allclose(np.fmin(abs(e), abs(e-1)), 0, atol=tol, rtol=0)
ClusterDmClose(e, tol) ==
    \A i \in 1..Len(e) : Min2(Abs(e[i]), Abs(e[i] - Unit)) <= tol

\* nocc_clst = sum(e > 0.5)
NoccClst(e) == CountAbove(e, Unit \div 2)

(***************************************************************************)
(* Cluster.diagonalize_cluster_dm(C_bath).  e is what eigh returns for the *)
(* density matrix of hstack(C_local, C_bath); the rotated columns          *)
(* C_clst.R are the eigenvectors, so each has its eigenvalue as            *)
(* occupation.                                                             *)
(***************************************************************************)
\* diagonalize_cluster_dm without the reversal e[::-1], R[:,::-1]
diagonalize_cluster_dm_noreverse(self, C_bath, e) ==
    IF ~ClusterDmClose(e, self.dmet_bath_tol)
    THEN [err |-> "RuntimeError", C_occclst |-> NoneSeq, C_virclst |-> NoneSeq]
    ELSE LET parts == hsplit(e, NoccClst(e))
         IN [err |-> "none", C_occclst |-> parts[1], C_virclst |-> parts[2]]

diagonalize_cluster_dm(self, C_bath, e) ==
    IF ~ClusterDmClose(e, self.dmet_bath_tol)
    THEN [err |-> "RuntimeError", C_occclst |-> NoneSeq, C_virclst |-> NoneSeq]
    ELSE LET C_clst == Reverse(e)
             nocc_clst == NoccClst(C_clst)
             parts == hsplit(C_clst, nocc_clst)
         IN [err |-> "none", C_occclst |-> parts[1], C_virclst |-> parts[2]]

\* Cluster.canonicalize(*C): the stacked columns rotated by the eigenvectors
\* of the Fock matrix; perm is the order eigh puts them in.
canonicalize(C1, C2, perm) ==
    LET C == hstack(C1, C2) IN [i \in 1..Len(C) |-> C[perm[i]]]

Perms(n) == {p \in [1..n -> 1..n] : \A i, j \in 1..n : p[i] = p[j] => i = j}

(***************************************************************************)
(* The correlated solvers (pyscf.mp, pyscf.cc, pyscf.ci, pyscf.mcscf) are  *)
(* opaque: a solve ends with a converged status, a correlation energy, a   *)
(* local energy (get_local_energy) and CI coefficients C0, C1, C2.         *)
(***************************************************************************)
\* solverobj.ao2mo(): integrals transformed for this solver and frozen set
ao2mo(solver, frozen) == [made_by |-> solver, frozen |-> frozen]

\* Cluster.energy_factor
energy_factor(self) == self.symmetry_factor

\* Cluster.loop_clusters(exclude_self=True), over base.clusters
loop_clusters(self, clusters) ==
    {x \in ClusterIds : clusters[x].exists /\ x # self.id}

\* What the coupled-bath code of the CCSD branch reads of the other clusters:
\* for every other cluster its amplitudes store, and the stored C1, C2
\* together with C_occact, C_viract when the store is not empty.
TailorReads(self, clusters) ==
    {[x |-> x,
      found |-> clusters[x].amplitudes # {},
      x_iteration |-> clusters[x].iteration] : x \in loop_clusters(self, clusters)}

\* The test that guards the storing of the amplitudes
StoresAmplitudes(solver) == solver = "FCI"

\* What the solver object reports after kernel(): which solver ran, its
\* own converged status and energies, and its amplitudes t1, t2 projected on
\* the fragment and transformed to the mean-field orbitals (pT1, pT2);
\* NoKernel when no solver was invoked.
NoKernel == [ran |-> FALSE, solver |-> NoneVal, converged |-> TRUE,
             e_corr |-> 0, e_local |-> 0, pT1 |-> 0, pT2 |-> 0]

Kernel(solver, out) ==
    [ran |-> TRUE, solver |-> solver, converged |-> out.converged,
     e_corr |-> out.e_corr, e_local |-> out.e_local,
     pT1 |-> out.pT1, pT2 |-> out.pT2]

\* A run_solver that reports every solver run as converged
SolverConverged_always(solver, out) == TRUE

\* converged = True (MP2), cc.converged, ci.converged, casci.converged
SolverConverged(solver, out) ==
    IF solver = "MP2" THEN TRUE ELSE out.converged

(***************************************************************************)
(* The chemical-potential loop of run_solver (nelectron_target is set).    *)
(* trials is what the solver yields at the successive chemical potentials  *)
(* scipy.optimize.brentq evaluates: first cptmin, then cptmax, then the    *)
(* points inside the bracket; a trial is [converged, nerr], nerr the       *)
(* electron error nx - nelectron_target in units of 1e-8.  brentq raises   *)
(* ValueError when the errors at the two ends have the same sign, and      *)
(* returns once its bracket is narrow enough, which is the end of trials.  *)
(***************************************************************************)
\* The trials a call was given and the number of them it evaluated
NoTrials == [seq |-> << >>, used |-> 0]

Trials(seq, used) == [seq |-> seq, used |-> used]

\* ntol = 1e-6
NTol == 100

\* if abs(nerr) < ntol: raise StopIteration
WithinNTol(t) == Abs(t.nerr) < NTol

\* electron_error(chempot) of the FCI branch with the test of the electron
\* count before the convergence assertion
electron_error_tolfirst(t) ==
    IF WithinNTol(t) THEN "StopIteration"
    ELSE IF ~t.converged THEN "AssertionError"
    ELSE "return"

\* electron_error(chempot) of the FCI branch: how the evaluation of one trial
\* ends
electron_error(t) ==
    IF ~t.converged THEN "AssertionError"
    ELSE IF WithinNTol(t) THEN "StopIteration"
    ELSE "return"

SameSign(a, b) == (a > 0 /\ b > 0) \/ (a < 0 /\ b < 0)

\* try: scipy.optimize.brentq(electron_error, cptmin, cptmax)
\* except StopIteration: pass
\* The result: the exception that leaves the loop ("none"), and the number of
\* trials evaluated.
RECURSIVE brentq(_, _)
brentq(trials, n) ==
    LET e == electron_error(trials[n])
    IN IF e = "AssertionError" THEN [err |-> "AssertionError", used |-> n]
       ELSE IF e = "StopIteration" THEN [err |-> "none", used |-> n]
       ELSE IF n = 2 /\ SameSign(trials[1].nerr, trials[2].nerr)
            THEN [err |-> "ValueError: f(a) and f(b) must have different signs",
                  used |-> n]
       ELSE IF n = Len(trials) THEN [err |-> "none", used |-> n]
       ELSE brentq(trials, n + 1)

\* The CISD branch with nelectron_target without its
\* raise NotImplementedError(): the loop below it runs, with
\* ci._scf.get_hcore (the mean-field's) replaced during the search.
CISDChempot_search(self, mf0, trials) ==
    LET r == brentq(trials, 1)
    IN [err |-> r.err, used |-> r.used,
        mf |-> IF r.err = "none" THEN mf0
               ELSE [mf0 EXCEPT !.get_hcore = "lambda: h1e - chempot*b"]]

\* The CISD branch with nelectron_target: "Buggy, doesn't work"
CISDChempot(self, mf0, trials) ==
    [err |-> "NotImplementedError", used |-> 0, mf |-> mf0]

\* The FCI branch with nelectron_target: the loop replaces casci.get_hcore,
\* an attribute of the solver object, and leaves the mean-field alone.
FCIChempot(self, mf0, trials) ==
    LET r == brentq(trials, 1)
    IN [err |-> r.err, used |-> r.used, mf |-> mf0]

\* The tailoring function in effect during a CCSD solve: cc.tailorfunc is
\* assigned the global variant if base.tccT1 is not None, then the
\* coupled-bath variant if self.coupled_bath; the second assignment replaces
\* the first.  The coupled-bath variant installed only when there is no
\* global one
tailorfunc_globalfirst(self, base0) ==
    IF base0.tccT1 # NoArray THEN "global"
    ELSE IF self.coupled_bath THEN "coupled" ELSE NoneVal

tailorfunc(self, base0) ==
    LET global == IF base0.tccT1 # NoArray THEN "global" ELSE NoneVal
    IN IF self.coupled_bath THEN "coupled" ELSE global

\* The accumulation at the end of the CCSD branch written to the arrays
\* whatever maxiter is
Accumulate_always(self, base0, out) ==
    LET T1 == IF base0.T1 = NoArray THEN <<0>> ELSE base0.T1
        T2 == IF base0.T1 = NoArray THEN <<0>> ELSE base0.T2
    IN [base0 EXCEPT !.T1 = <<T1[1] + out.pT1>>, !.T2 = <<T2[1] + out.pT2>>]

\* "if self.maxiter > 1": base.T1, base.T2 are created as zeros if base.T1 is
\* None, and the locally projected cc.t1, cc.t2, transformed to the
\* mean-field orbitals (out.pT1, out.pT2), are added to them.
Accumulate(self, base0, out) ==
    IF self.maxiter > 1
    THEN LET T1 == IF base0.T1 = NoArray THEN <<0>> ELSE base0.T1
             T2 == IF base0.T1 = NoArray THEN <<0>> ELSE base0.T2
         IN [base0 EXCEPT !.T1 = <<T1[1] + out.pT1>>, !.T2 = <<T2[1] + out.pT2>>]
    ELSE base0

\* solver_options.pop("fix_spin", None) on the dictionary of the cluster
PopFixSpin(solver_options) == solver_options \ {"fix_spin"}

\* What a solve did besides its result: whether it transformed integrals
\* (ao2mo), the integrals it handed to the solver, the tailoring function
\* installed and the solver options applied.
NoSolve == [ao2mo |-> FALSE, eris |-> NoEris, tailorfunc |-> NoneVal,
            options |-> {}]

\* The branch of run_solver for one solver: the exception raised ("none"),
\* converged, e_corr_full, e_corr, eris, the amplitudes C1, C2 in intermediate
\* normalisation, what was read of the other clusters, the steps taken, the
\* base arrays and the cluster's solver_options afterwards.
SolverBranch(self, clusters, mf0, base0, solver, frozen, eris, out) ==
    LET unsolved == [err |-> "none", converged |-> TRUE, e_corr_full |-> 0,
                 e_corr |-> 0, eris |-> eris, C1 |-> 0, C2 |-> 0, reads |-> {},
                 kernel |-> NoKernel, mf |-> mf0, trials |-> NoTrials,
                 base |-> base0, solve |-> NoSolve, steps |-> << >>,
                 solver_options |-> self.solver_options]
        \* the FCI branch transforms with a CISD object it creates for that
        transformer == IF solver \in {"FCI-spin0", "FCI-spin1"} THEN "CISD" ELSE solver
        eris1 == IF eris = NoEris THEN ao2mo(transformer, frozen) ELSE eris
        transformed == [NoSolve EXCEPT !.ao2mo = (eris = NoEris), !.eris = eris1]
        solvedBy(o) == [unsolved EXCEPT !.eris = eris1,
                               !.kernel = Kernel(solver, o),
                               !.converged = SolverConverged(solver, o),
                               !.e_corr_full = energy_factor(self) * o.e_corr,
                               !.e_corr = o.e_local,
                               !.solve = transformed,
                               !.steps = <<"kernel", "get_local_amplitudes">>]
        solved == solvedBy(out)
        \* the solver object after the last trial the search evaluated
        atTrial(n) == [out EXCEPT !.converged = out.trials[n].converged]
        \* the FCI branch: the options applied and the dictionary afterwards
        applied == self.solver_options
        popped == IF self.solver_options # {}
                  THEN PopFixSpin(self.solver_options) ELSE self.solver_options
    IN CASE solver = NoneVal -> unsolved
         [] solver = "MP2" ->
              [solved EXCEPT !.C2 = out.C2]
         [] solver = "CCSD" ->
              [solved EXCEPT !.reads = IF self.coupled_bath
                                       THEN TailorReads(self, clusters) ELSE {},
                             !.C1 = out.C1, !.C2 = out.C2,
                             !.solve.tailorfunc = tailorfunc(self, base0),
                             !.base = Accumulate(self, base0, out)]
         [] solver = "CISD" ->
              IF self.nelectron_target # NoneVal
              THEN LET r == CISDChempot(self, mf0, out.trials)
                   IN IF r.err # "none"
                      THEN [unsolved EXCEPT !.err = r.err, !.eris = eris1,
                                        !.solve = transformed,
                                        !.mf = r.mf, !.trials = Trials(out.trials, r.used)]
                      ELSE [solvedBy(atTrial(r.used)) EXCEPT
                                          !.C1 = out.C1 \div out.C0,
                                          !.C2 = out.C2 \div out.C0,
                                          !.mf = r.mf,
                                          !.trials = Trials(out.trials, r.used)]
              ELSE [solved EXCEPT !.C1 = out.C1 \div out.C0,
                                  !.C2 = out.C2 \div out.C0]
         [] solver \in {"FCI-spin0", "FCI-spin1"} ->
              IF self.active_occ = NoneSeq
              THEN [unsolved EXCEPT !.err = "TypeError"]
              ELSE IF self.nelectron_target # NoneVal
              THEN LET r == FCIChempot(self, mf0, out.trials)
                   IN IF r.err # "none"
                      THEN [unsolved EXCEPT !.err = r.err, !.mf = r.mf,
                                        !.solve.options = applied,
                                        !.solver_options = popped,
                                        !.steps = <<"kernel">>,
                                        !.trials = Trials(out.trials, r.used)]
                      ELSE [solvedBy(atTrial(r.used)) EXCEPT
                                          !.C1 = out.C1 \div out.C0,
                                          !.C2 = out.C2 \div out.C0,
                                          !.mf = r.mf,
                                          !.solve.options = applied,
                                          !.solver_options = popped,
                                          !.trials = Trials(out.trials, r.used)]
              ELSE [solved EXCEPT !.C1 = out.C1 \div out.C0,
                                  !.C2 = out.C2 \div out.C0,
                                  !.solve.options = applied,
                                  !.solver_options = popped]
         [] OTHER -> [unsolved EXCEPT !.err = "ValueError: Unknown solver"]

(***************************************************************************)
(* Cluster.run_solver(solver, mo_coeff, mo_occ, active, frozen, eris).     *)
(* The result: the object afterwards, the exception raised ("none"), the   *)
(* returned (converged, e_corr), what was read of the other clusters and   *)
(* what the solver reported.                                               *)
(***************************************************************************)
\* A raise that first records the cluster as not converged
Raised_unconverged(s, e) ==
    [self |-> [s EXCEPT !.converged = FALSE], err |-> e, converged |-> FALSE,
     e_corr |-> 0, reads |-> {}, kernel |-> NoKernel, trials |-> NoTrials,
     solve |-> NoSolve, steps |-> << >>]

Raised(s, e) == [self |-> s, err |-> e, converged |-> FALSE, e_corr |-> 0,
                 reads |-> {}, kernel |-> NoKernel, trials |-> NoTrials,
                 solve |-> NoSolve, steps |-> << >>]

\* The counter held at maxiter once it has reached it.
NextIteration_capped(self) ==
    IF self.iteration < self.maxiter THEN self.iteration + 1 ELSE self.iteration

\* self.iteration += 1: maxiter is not consulted.
NextIteration(self) == self.iteration + 1

\* "Store integrals for iterations": if self.maxiter > 1: self.eris = eris
StoreEris(self, eris, made) ==
    IF self.maxiter > 1 THEN [self EXCEPT !.eris = eris] ELSE self

\* The requested solver kept also for an active space of one orbital
ActiveSolver_asrequested(active, solver) == solver

\* "if len(active) == 1: solver = None"
ActiveSolver(active, solver) == IF Len(active) = 1 THEN NoneVal ELSE solver

run_solver(self, clusters, mf0, base0, solverArg, mo_coeffArg, mo_occArg, activeArg, frozenArg, out) ==
    LET solver0 == Or(solverArg, self.solver)
        active == IF activeArg = NoneSeq THEN self.active ELSE activeArg
        frozen == IF frozenArg = NoneSeq THEN self.frozen ELSE frozenArg
        eris == self.eris
        s1 == [self EXCEPT !.iteration = NextIteration(self)]
    IN IF active = NoneSeq
       THEN [Raised(s1, "TypeError") EXCEPT !.steps = <<"run_solver">>]
              @@ [mf |-> mf0, base |-> base0]
       ELSE LET solver == ActiveSolver(active, solver0)
                b == SolverBranch(s1, clusters, mf0, base0, solver, frozen, eris, out)
                sb == [s1 EXCEPT !.solver_options = b.solver_options]
            IN IF b.err # "none"
               THEN [Raised(sb, b.err) EXCEPT !.trials = b.trials,
                                              !.solve = b.solve,
                                              !.steps = <<"run_solver">> \o b.steps]
                      @@ [mf |-> b.mf, base |-> b.base]
               ELSE LET s2 == StoreEris(sb, b.eris, b.solve.ao2mo)
                        s3 == IF StoresAmplitudes(solver)
                              THEN [s2 EXCEPT !.amplitudes =
                                      {<<"C1", b.C1>>, <<"C2", b.C2>>}]
                              ELSE s2
                        s4 == [s3 EXCEPT !.e_corr_full = b.e_corr_full,
                                         !.converged = b.converged,
                                         !.e_corr = b.e_corr]
                    IN [self |-> s4, err |-> "none", converged |-> b.converged,
                        e_corr |-> b.e_corr, reads |-> b.reads, kernel |-> b.kernel,
                        trials |-> b.trials, mf |-> b.mf, base |-> b.base,
                        solve |-> b.solve,
                        steps |-> <<"run_solver">> \o b.steps \o <<"bookkeeping">>]

(***************************************************************************)
(* Bath construction (bath.py).  make_dmet_bath splits the environment     *)
(* into DMET bath orbitals (fractionally occupied, at most as many as      *)
(* fragment orbitals), occupied and virtual environment orbitals;          *)
(* make_bath selects some of the environment orbitals as bath and returns  *)
(* the rest with the MP2 correction of the orbitals left out.              *)
(* V names the values the routines' results are drawn from.                *)
(***************************************************************************)
Fractional(n) == [i \in 1..n |-> Unit \div 2]

make_dmet_bath(self, V) ==
    LET nenv == Len(self.C_env)
    IN UNION { UNION { {[C_bath |-> Fractional(nb), C_occenv |-> o, C_virenv |-> v] :
                           o \in [1..no -> V.occ], v \in [1..(nenv - nb - no) -> V.vir]} :
                       no \in V.nocc \cap 0..(nenv - nb) } :
               nb \in V.nbath \cap 0..Min2(size(self), nenv) }

make_bath(C_env, bath_type, ks, V) ==
    {[C_bath |-> SubSeq(C_env, 1, k), C_env |-> SubSeq(C_env, k + 1, Len(C_env)),
      e_delta |-> d] :
        k \in (IF bath_type = NoneVal THEN {0} ELSE ks \cap 0..Len(C_env)),
        d \in V.edelta}

(***************************************************************************)
(* Cluster.run(solver, refdata).  inp holds what the numerical routines    *)
(* return during this call: dmet (make_dmet_bath), e (eigh in              *)
(* diagonalize_cluster_dm), occ and vir (make_bath), permo and permv       *)
(* (canonicalize), out (the solver).                                       *)
(***************************************************************************)
\* The steps of run() in the order of its statements, up to the call of
\* run_solver
RunOrder ==
    <<"make_dmet_bath", "diagonalize_cluster_dm", "make_bath_occ",
      "make_bath_vir", "canonicalize", "check_occupations", "assemble">>

\* The steps run() has started when it is at step n
StepsThrough(n) == SubSeq(RunOrder, 1, n)

\* An occupation check that lets every set of orbitals pass
OccupOK_unchecked(self, Co, Cv) == TRUE

\* The occupation check without its test of the occupied orbitals
OccupOK_vironly(self, Co, Cv) ==
    AllClose(get_occup(Cv), 0, 2 * self.dmet_bath_tol)

\* The occupation check on the assembled occupied and virtual orbitals
OccupOK(self, Co, Cv) ==
    /\ AllClose(get_occup(Co), 2 * Unit, 2 * self.dmet_bath_tol)
    /\ AllClose(get_occup(Cv), 0, 2 * self.dmet_bath_tol)

\* The index lists with frozen_vir counted from 0 instead of from No
AssembleLists_nooffset(nOccEnv, No, nVirAct, Nv) ==
    [frozen_occ |-> Range(0, nOccEnv),
     active_occ |-> Range(nOccEnv, No),
     active_vir |-> Range(No, No + nVirAct),
     frozen_vir |-> Range(nVirAct, Nv)]

\* The four index lists: frozen_occ, active_occ, active_vir, frozen_vir
AssembleLists(nOccEnv, No, nVirAct, Nv) ==
    [frozen_occ |-> Range(0, nOccEnv),
     active_occ |-> Range(nOccEnv, No),
     active_vir |-> Range(No, No + nVirAct),
     frozen_vir |-> Range(No + nVirAct, No + Nv)]

run(self, clusters, mf0, base0, solverArg, inp) ==
    LET solver == Or(solverArg, self.solver)
        C_bath == inp.dmet.C_bath
        d == diagonalize_cluster_dm(self, C_bath, inp.e)
    IN IF d.err # "none"
       THEN [Raised(self, d.err) EXCEPT !.steps = StepsThrough(2)]
              @@ [mf |-> mf0, base |-> base0]
       ELSE
       LET s1 == [self EXCEPT !.C_bath = C_bath,
                              !.C_occclst = d.C_occclst,
                              !.C_virclst = d.C_virclst,
                              !.refdata_out = @ \cup {"dmet-bath"}]
           C_occbath == inp.occ.C_bath
           C_occenv == inp.occ.C_env
           C_virbath == inp.vir.C_bath
           C_virenv == inp.vir.C_env
           s2 == [s1 EXCEPT !.C_occbath = C_occbath,
                            !.C_virbath = C_virbath,
                            !.C_occenv = C_occenv,
                            !.C_virenv = C_virenv,
                            !.refdata_out = @ \cup {"occ-bath", "vir-bath",
                                                    "occbath-eigref", "virbath-eigref"},
                            !.e_delta_mp2 = inp.occ.e_delta + inp.vir.e_delta]
           C_occact == canonicalize(d.C_occclst, C_occbath, inp.permo)
           C_viract == canonicalize(d.C_virclst, C_virbath, inp.permv)
           s3 == [s2 EXCEPT !.C_occact = C_occact, !.C_viract = C_viract]
           Co == hstack(C_occenv, C_occact)
           Cv == hstack(C_viract, C_virenv)
           mo_coeff == hstack(Co, Cv)
           No == Len(Co)
           Nv == Len(Cv)
       IN IF ~OccupOK(self, Co, Cv)
          THEN [Raised(s3, "AssertionError") EXCEPT !.steps = StepsThrough(6)]
                 @@ [mf |-> mf0, base |-> base0]
          ELSE
          LET mo_occ == [i \in 1..(No + Nv) |-> IF i <= No THEN 2 ELSE 0]
              L == AssembleLists(Len(C_occenv), No, Len(C_viract), Nv)
              active == L.active_occ \o L.active_vir
              frozen == L.frozen_occ \o L.frozen_vir
              s4 == [s3 EXCEPT !.mo_coeff = mo_coeff,
                               !.mo_occ = mo_occ,
                               !.active = active,
                               !.active_occ = L.active_occ,
                               !.active_vir = L.active_vir,
                               !.frozen = frozen,
                               !.frozen_occ = L.frozen_occ,
                               !.frozen_vir = L.frozen_vir]
              r == run_solver(s4, clusters, mf0, base0, solver, mo_coeff, mo_occ,
                              active, frozen, inp.out)
          IN [r EXCEPT !.steps = StepsThrough(7) \o r.steps]

(***************************************************************************)
(* Values the calls are made with and the numerical routines return.       *)
(*   eig     eigenvalues of the cluster density matrix                     *)
(*   occ     occupations (per spin) of occupied environment orbitals       *)
(*   vir     occupations (per spin) of virtual environment orbitals        *)
(*   edelta  MP2 corrections returned by make_bath                         *)
(*   outs    solver results                                                *)
(*   rotate  whether canonicalize reorders the columns                     *)
(*   solvers solver arguments of run() and run_solver()                    *)
(***************************************************************************)
SolverOutcomes ==
    {[converged |-> TRUE, e_corr |-> -4, e_local |-> -1, C0 |-> 2, C1 |-> 4, C2 |-> 6,
      pT1 |-> 0, pT2 |-> 0],
     [converged |-> FALSE, e_corr |-> -6, e_local |-> -2, C0 |-> 2, C1 |-> 4, C2 |-> 6,
      pT1 |-> 0, pT2 |-> 0]}

Counts == 0..NMO

Detailed ==
    [eig |-> {0, Unit \div 2, Unit},
     nbath |-> Counts, nocc |-> Counts, kocc |-> Counts, kvir |-> Counts,
     occ |-> {Unit, Unit - 1002},
     vir |-> {0, 2},
     edelta |-> {-1},
     outs |-> SolverOutcomes,
     rotate |-> TRUE,
     run_solvers |-> {NoneVal},
     solvers |-> {NoneVal}]

Coarse ==
    [eig |-> {0, Unit \div 2, Unit},
     nbath |-> {0, 1}, nocc |-> {1}, kocc |-> {0}, kvir |-> {0},
     occ |-> {Unit, Unit - 1002},
     vir |-> {0},
     edelta |-> {-1},
     outs |-> SolverOutcomes,
     rotate |-> FALSE,
     run_solvers |-> {NoneVal, "BOGUS"},
     solvers |-> {NoneVal, "MP2", "BOGUS"}]

Tiny ==
    [eig |-> {0, Unit},
     nbath |-> {1}, nocc |-> {0, 1}, kocc |-> {0}, kvir |-> {0},
     occ |-> {Unit},
     vir |-> {0},
     edelta |-> {-1},
     outs |-> SolverOutcomes,
     rotate |-> FALSE,
     run_solvers |-> {NoneVal},
     solvers |-> {NoneVal}]

PermsOf(V, n) == IF V.rotate THEN Perms(n) ELSE {[i \in 1..n |-> i]}

(***************************************************************************)
(* Actions: the calls a driver can make on the clusters.                   *)
(***************************************************************************)
Returned(op, c, arg, r) ==
    [op |-> op, c |-> c, arg |-> arg, err |-> r.err,
     converged |-> r.converged, e_corr |-> r.e_corr, reads |-> r.reads,
     kernel |-> r.kernel, trials |-> r.trials, solve |-> r.solve,
     steps |-> r.steps]

\* The state after a call on cluster c that ended as r
Called(op, c, arg, r) ==
    /\ cl' = [cl EXCEPT ![c] = r.self]
    /\ last' = Returned(op, c, arg, r)
    /\ mf' = r.mf
    /\ base' = r.base

\* Cluster(base, c, name, C_local, C_env, solver=..., bath_type=..., **kwargs)
Construct(c, sizes, solvers, bath_types, kwargss) ==
    /\ ~cl[c].exists
    /\ \E n \in sizes, solver \in solvers, bath_type \in bath_types,
          kwargs \in kwargss :
         LET r == ClusterInit(c, Fractional(n), Fractional(NMO - n),
                              solver, bath_type, kwargs)
         IN /\ cl' = [cl EXCEPT ![c] = r.self]
            /\ last' = [op |-> "init", c |-> c,
                        arg |-> [ncols |-> n, solver |-> solver,
                                 bath_type |-> bath_type],
                        err |-> r.err, converged |-> FALSE, e_corr |-> 0,
                        reads |-> {}, kernel |-> NoKernel, trials |-> NoTrials]
            /\ UNCHANGED <<mf, base>>

\* cluster.run(solver=solverArg)
Run(c, V, cap) ==
    /\ cl[c].exists
    /\ cl[c].iteration < cap
    /\ \E solverArg \in V.run_solvers, dm \in make_dmet_bath(cl[c], V) :
       \E e \in EighValues(size(cl[c]) + Len(dm.C_bath), V.eig) :
       \E bo \in make_bath(dm.C_occenv, cl[c].bath_type, V.kocc, V),
          bv \in make_bath(dm.C_virenv, cl[c].bath_type, V.kvir, V) :
       \E po \in PermsOf(V, NoccClst(e) + Len(bo.C_bath)),
          pv \in PermsOf(V, Len(e) - NoccClst(e) + Len(bv.C_bath)),
          out \in V.outs :
         Called("run", c, solverArg,
                run(cl[c], cl, mf, base, solverArg,
                    [dmet |-> dm, e |-> e, occ |-> bo, vir |-> bv,
                     permo |-> po, permv |-> pv, out |-> out]))

\* cluster.run_solver(solver=solverArg)
RunSolver(c, V, cap) ==
    /\ cl[c].exists
    /\ cl[c].iteration < cap
    /\ \E solverArg \in V.solvers, out \in V.outs :
         Called("run_solver", c, solverArg,
                run_solver(cl[c], cl, mf, base, solverArg, NoneSeq, NoneSeq,
                           NoneSeq, NoneSeq, out))

\* cluster.set_refdata(refdata)
SetRefdata(c) ==
    /\ cl[c].exists
    /\ \E refdata \in {{}, cl[c].refdata_out} :
         /\ cl' = [cl EXCEPT ![c].refdata_in = refdata]
         /\ last' = [op |-> "set_refdata", c |-> c, arg |-> refdata,
                     err |-> "none", converged |-> FALSE, e_corr |-> 0,
                     reads |-> {}, kernel |-> NoKernel, trials |-> NoTrials]
         /\ UNCHANGED <<mf, base>>

\* cluster.reset(keep_ref_orbitals): get_orbitals is not a method of Cluster
\* (its definition is commented out), so the first statement raises.
reset(self, keep_ref_orbitals) ==
    Raised(self, "AttributeError")

Reset(c) ==
    /\ cl[c].exists
    /\ \E keep_ref_orbitals \in BOOLEAN :
         LET r == reset(cl[c], keep_ref_orbitals)
         IN /\ cl' = [cl EXCEPT ![c] = r.self]
            /\ last' = Returned("reset", c, keep_ref_orbitals, r)
            /\ UNCHANGED <<mf, base>>

\* cluster.set_default_attributes()
SetDefaultAttributes(c) ==
    /\ cl[c].exists
    /\ cl' = [cl EXCEPT ![c] = set_default_attributes(cl[c])]
    /\ last' = [op |-> "set_default_attributes", c |-> c, arg |-> NoneVal,
                err |-> "none", converged |-> FALSE, e_corr |-> 0,
                reads |-> {}, kernel |-> NoKernel, trials |-> NoTrials]
    /\ UNCHANGED <<mf, base>>

Kwargs(maxiter, coupled_bath) ==
    [dmet_bath_tol |-> 1, symmetry_factor |-> 2, coupled_bath |-> coupled_bath,
     nelectron_target |-> NoneVal, refdata |-> {}, maxiter |-> maxiter,
     solver_options |-> {}]

NoCall == [op |-> "none", c |-> 0, arg |-> NoneVal, err |-> "none",
           converged |-> FALSE, e_corr |-> 0, reads |-> {}, kernel |-> NoKernel, trials |-> NoTrials]

Init ==
    /\ cl = [c \in ClusterIds |-> NoCluster]
    /\ last = NoCall
    /\ mf = MeanField
    /\ base = BaseObject

(***************************************************************************)
(* Spec: the life of a cluster, from construction over repeated run() and  *)
(* run_solver() calls.                                                     *)
(***************************************************************************)
Next ==
    \E c \in {1} :
        \/ Construct(c, {0, 1}, VALID_SOLVERS \cup {"BOGUS"},
                     {"mp2-natorb", "BOGUS"}, {Kwargs(1, FALSE), Kwargs(2, FALSE)})
        \/ Run(c, Coarse, MaxIteration)
        \/ RunSolver(c, Coarse, MaxIteration)

Spec == Init /\ [][Next]_vars

(***************************************************************************)
(* SpecReset: a cluster that is run, handed reference data and reset.      *)
(***************************************************************************)
NextReset ==
    \E c \in {1} :
        \/ Construct(c, 0..MaxLocal, {"CCSD", "BOGUS"}, {"mp2-natorb", "BOGUS"},
                     {Kwargs(2, FALSE)})
        \/ Run(c, Tiny, MaxIteration)
        \/ RunSolver(c, Tiny, MaxIteration)
        \/ SetRefdata(c)
        \/ SetDefaultAttributes(c)
        \/ Reset(c)

SpecReset == Init /\ [][NextReset]_vars

(***************************************************************************)
(* SpecOrb: one run() of a cluster in full orbital detail.                 *)
(***************************************************************************)
Built(c, n, solver, bath_type, kwargs) ==
    ClusterInit(c, Fractional(n), Fractional(NMO - n), solver, bath_type, kwargs).self

InitOrb ==
    /\ \E n \in 1..MaxLocal, bath_type \in VALID_BATH_TYPES :
         cl = [c \in ClusterIds |->
                 IF c = 1 THEN Built(c, n, "CCSD", bath_type, Kwargs(1, FALSE))
                 ELSE NoCluster]
    /\ last = NoCall
    /\ mf = MeanField
    /\ base = BaseObject

NextOrb ==
    /\ last.op = "none"
    /\ Run(1, Detailed, 1)

SpecOrb == InitOrb /\ [][NextOrb]_vars

(***************************************************************************)
(* SpecDiag: diagonalize_cluster_dm applied to the eigenvalues eigh can    *)
(* return, for a tight and a loose dmet_bath_tol.                          *)
(***************************************************************************)
EigEdge == {-1, 0, 1, 2, Unit \div 2, Unit - 2, Unit - 1, Unit, Unit + 1}

DmetBathTols == {1, Unit \div 2}

DiagonalizeClusterDm(c) ==
    /\ cl[c].exists
    /\ \E nb \in 0..Min2(size(cl[c]), Len(cl[c].C_env)) :
       \E e \in EighValues(size(cl[c]) + nb, EigEdge) :
         LET C_bath == Fractional(nb)
             r == diagonalize_cluster_dm(cl[c], C_bath, e)
         IN /\ UNCHANGED <<cl, mf, base>>
            /\ last' = [op |-> "diagonalize_cluster_dm", c |-> c,
                        arg |-> [C_bath |-> C_bath, e |-> e],
                        err |-> r.err, converged |-> FALSE, e_corr |-> 0,
                        reads |-> {}, kernel |-> NoKernel, trials |-> NoTrials,
                        ret |-> <<r.C_occclst, r.C_virclst>>]

InitDiag ==
    /\ \E n \in 1..MaxLocal, tol \in DmetBathTols :
         cl = [c \in ClusterIds |->
                 IF c = 1
                 THEN Built(c, n, "CCSD", "mp2-natorb",
                            [Kwargs(1, FALSE) EXCEPT !.dmet_bath_tol = tol])
                 ELSE NoCluster]
    /\ last = NoCall
    /\ mf = MeanField
    /\ base = BaseObject

NextDiag ==
    /\ last.op = "none"
    /\ DiagonalizeClusterDm(1)

SpecDiag == InitDiag /\ [][NextDiag]_vars

(***************************************************************************)
(* SpecCoupled: two clusters, the first a CCSD cluster with coupled_bath,  *)
(* driven in global sweeps: a cluster starts its next iteration only when  *)
(* no cluster is behind it.                                                *)
(***************************************************************************)
SweepBarrier(c) ==
    \A x \in ClusterIds : cl[x].exists => cl[x].iteration >= cl[c].iteration

SweepRun(c) ==
    /\ cl[c].exists
    /\ SweepBarrier(c)
    /\ Run(c, Tiny, MaxIteration)

SweepRunSolver(c) ==
    /\ cl[c].exists
    /\ SweepBarrier(c)
    /\ RunSolver(c, Tiny, MaxIteration)

InitCoupled ==
    /\ \E solver2 \in {"FCI-spin0", "FCI-spin1"} :
         cl = [c \in ClusterIds |->
                 IF c = 1 THEN Built(c, 1, "CCSD", "mp2-natorb", Kwargs(2, TRUE))
                 ELSE Built(c, 1, solver2, "mp2-natorb", Kwargs(2, FALSE))]
    /\ last = NoCall
    /\ mf = MeanField
    /\ base = BaseObject

NextCoupled ==
    \E c \in ClusterIds :
        \/ SweepRun(c)
        \/ SweepRunSolver(c)

SpecCoupled == InitCoupled /\ [][NextCoupled]_vars

(***************************************************************************)
(* Amplitude projection.  T1 has shape (nocc, nvir), T2 (nocc, nocc, nvir, *)
(* nvir) and P (nocc, nocc); an array is a function of its index tuple.    *)
(* Amplitudes are even integers, so that the halving of the symmetrization *)
(* is exact, as it is (up to underflow) in binary floating point.          *)
(***************************************************************************)
\* Number of active occupied orbitals of the amplitudes.
NOccAct == 2

\* Number of active virtual orbitals of the amplitudes.
NVirAct == 2

OccIdx == 1..NOccAct

VirIdx == 1..NVirAct

T1Index == OccIdx \X VirIdx

T2Index == OccIdx \X OccIdx \X VirIdx \X VirIdx

PIndex == OccIdx \X OccIdx

\* Sum of f[1] .. f[n].
RECURSIVE SumTo(_, _)
SumTo(f, n) == IF n = 0 THEN 0 ELSE f[n] + SumTo(f, n - 1)

\* einsum("xi,ia->xa", P, T1)
einsum_xi_ia(P, T1) ==
    [t \in T1Index |->
        SumTo([i \in OccIdx |-> P[<<t[1], i>>] * T1[<<i, t[2]>>]], NOccAct)]

\* einsum("xi,ijab->xjab", P, T2)
einsum_xi_ijab(P, T2) ==
    [t \in T2Index |->
        SumTo([i \in OccIdx |-> P[<<t[1], i>>] * T2[<<i, t[2], t[3], t[4]>>]],
              NOccAct)]

\* einsum("xj,ijab->ixab", P, T2)
einsum_xj_ijab(P, T2) ==
    [t \in T2Index |->
        SumTo([j \in OccIdx |-> P[<<t[2], j>>] * T2[<<t[1], j, t[3], t[4]>>]],
              NOccAct)]

\* einsum("xi,yj,ijab->xyab", P, P, T2)
einsum_xi_yj_ijab(P, T2) ==
    [t \in T2Index |->
        SumTo([i \in OccIdx |->
                 SumTo([j \in OccIdx |->
                          P[<<t[1], i>>] * P[<<t[2], j>>]
                            * T2[<<i, j, t[3], t[4]>>]], NOccAct)],
              NOccAct)]

\* pT2.transpose(1,0,3,2)
transpose_1032(pT2) == [t \in T2Index |-> pT2[<<t[2], t[1], t[4], t[3]>>]]

\* The symmetrization with only the occupied indices exchanged.
symmetrize_occonly(pT2) ==
    [t \in T2Index |-> (pT2[t] + pT2[<<t[2], t[1], t[3], t[4]>>]) \div 2]

\* (pT2 + pT2.transpose(1,0,3,2))/2
symmetrize(pT2) ==
    LET tr == transpose_1032(pT2)
    IN [t \in T2Index |-> (pT2[t] + tr[t]) \div 2]

\* An array that is None, or a name that was never bound.
NoAmplitudes == [t \in {} |-> 0]

\* indices_T2 as the caller passes it: None, or a list of axes.
IndicesT2 == {NoneSeq, <<0>>, <<1>>, <<0, 1>>, <<2>>}

IndicesT1 == {NoneSeq, <<0>>, <<1>>}

project_amplitudes(P, T1, T2, indices_T1, indices_T2, symmetrize_T2) ==
    LET iT1 == IF indices_T1 = NoneSeq THEN <<0>> ELSE indices_T1
        iT2 == IF indices_T2 = NoneSeq THEN <<0>> ELSE indices_T2
        pT1 == IF T1 # NoAmplitudes THEN einsum_xi_ia(P, T1) ELSE NoAmplitudes
        bound == iT2 \in {<<0>>, <<1>>, <<0, 1>>}
        pT2 == IF iT2 = <<0>> THEN einsum_xi_ijab(P, T2)
               ELSE IF iT2 = <<1>> THEN einsum_xj_ijab(P, T2)
               ELSE einsum_xi_yj_ijab(P, T2)
    IN IF iT1 # <<0>>
       THEN [err |-> "AssertionError", pT1 |-> NoAmplitudes, pT2 |-> NoAmplitudes]
       ELSE IF ~bound
       THEN [err |-> "UnboundLocalError", pT1 |-> NoAmplitudes, pT2 |-> NoAmplitudes]
       ELSE [err |-> "none", pT1 |-> pT1,
             pT2 |-> IF symmetrize_T2 THEN symmetrize(pT2) ELSE pT2]

(***************************************************************************)
(* Local projector.  A matrix is the sequence of its rows; a real matrix   *)
(* is a record [num, den] of an integer matrix and a common denominator,   *)
(* so that the products of get_local_projector are exact.                  *)
(***************************************************************************)
NRows(A) == Len(A)

NCols(A) == IF Len(A) = 0 THEN 0 ELSE Len(A[1])

Transpose(A) == [j \in 1..NCols(A) |-> [i \in 1..NRows(A) |-> A[i][j]]]

\* np.dot of two integer matrices.
Dot(A, B) ==
    [i \in 1..NRows(A) |->
       [j \in 1..NCols(B) |->
          SumTo([k \in 1..NCols(A) |-> A[i][k] * B[k][j]], NCols(A))]]

\* A[l]: the rows of A listed in l.
RowsOf(A, l) == [i \in 1..Len(l) |-> A[l[i]]]

\* A[:,l]: the columns of A listed in l.
ColsOf(A, l) == [i \in 1..NRows(A) |-> [j \in 1..Len(l) |-> A[i][l[j]]]]

Scaled(A, k) == [i \in 1..NRows(A) |-> [j \in 1..NCols(A) |-> k * A[i][j]]]

\* np.eye(n)
Eye(n) == [i \in 1..n |-> [j \in 1..n |-> IF i = j THEN 1 ELSE 0]]

Real(num, den) == [num |-> num, den |-> den]

\* np.linalg.multi_dot / np.dot of real matrices.
RDot(A, B) == Real(Dot(A.num, B.num), A.den * B.den)

RTranspose(A) == Real(Transpose(A.num), A.den)

\* Two real matrices are the same matrix.
RSame(A, B) == Scaled(A.num, B.den) = Scaled(B.num, A.den)

\* np.eye(P.shape[-1]) - P
EyeMinus(P) ==
    Real([i \in 1..NRows(P.num) |->
            [j \in 1..NCols(P.num) |->
               (IF i = j THEN P.den ELSE 0) - P.num[i][j]]], P.den)

\* The local orbital types the base can be configured with, and one it
\* does not know.
LocalOrbitalTypes == {"IAO", "LAO", "PMO", "AO", "NonOrth-IAO", "BOGUS"}

ProjectorKinds == {"right", "left", "center", "BOGUS"}

\* The orthogonal-type projector built without the overlap matrix.
ProjectOrthogonal_nooverlap(S, C_local, C) ==
    LET CSC == RDot(RTranspose(C), C_local)
    IN [err |-> "none", P |-> RDot(CSC, RTranspose(CSC))]

\* local_orbital_type in ("IAO", "LAO", "PMO"): kind is not looked at.
ProjectOrthogonal(S, C_local, C) ==
    LET CSC == RDot(RDot(RTranspose(C), S), C_local)
    IN [err |-> "none", P |-> RDot(CSC, RTranspose(CSC))]

ProjectRight(S, l, C) ==
    RDot(RDot(RTranspose(C), Real(ColsOf(S.num, l), S.den)),
         Real(RowsOf(C.num, l), C.den))

ProjectLeft(S, l, C) ==
    RDot(RDot(RTranspose(Real(RowsOf(C.num, l), C.den)),
              Real(RowsOf(S.num, l), S.den)), C)

ProjectCenter(s, l, C) ==
    RDot(RDot(RDot(RTranspose(C), Real(ColsOf(s.num, l), s.den)),
              Real(RowsOf(s.num, l), s.den)), C)

\* The AO-type projector with "right" as the fallback of an unknown kind.
ProjectAO_fallback(S, s, l, C, kind) ==
    IF kind = "left" THEN [err |-> "none", P |-> ProjectLeft(S, l, C)]
    ELSE IF kind = "center" /\ ~RSame(RDot(s, s), S)
    THEN [err |-> "AssertionError", P |-> NoneVal]
    ELSE IF kind = "center" THEN [err |-> "none", P |-> ProjectCenter(s, l, C)]
    ELSE [err |-> "none", P |-> ProjectRight(S, l, C)]

\* local_orbital_type in ("AO", "NonOrth-IAO"); s is
\* scipy.linalg.fractional_matrix_power(S, 0.5).
ProjectAO(S, s, l, C, kind) ==
    IF kind = "right" THEN [err |-> "none", P |-> ProjectRight(S, l, C)]
    ELSE IF kind = "left" THEN [err |-> "none", P |-> ProjectLeft(S, l, C)]
    ELSE IF kind = "center"
    THEN IF ~RSame(RDot(s, s), S)
         THEN [err |-> "AssertionError", P |-> NoneVal]
         ELSE [err |-> "none", P |-> ProjectCenter(s, l, C)]
    ELSE [err |-> "ValueError: Unknown kind", P |-> NoneVal]

\* g holds the arrays the method reads: the overlap of the mean-field, the
\* cluster's C_local and ao_indices, and the base's local_orbital_type.
get_local_projector(self, g, C, kind, inverse) ==
    LET lot == g.local_orbital_type
        r == IF lot \in {"IAO", "LAO", "PMO"}
             THEN ProjectOrthogonal(g.S, g.C_local, C)
             ELSE IF lot \in {"AO", "NonOrth-IAO"}
             THEN ProjectAO(g.S, g.sqrtS, g.ao_indices, C, kind)
             ELSE [err |-> "UnboundLocalError", P |-> NoneVal]
    IN IF r.err = "none" /\ inverse
       THEN [err |-> "none", P |-> EyeMinus(r.P)]
       ELSE r

(***************************************************************************)
(* The arrays project_amplitudes and get_local_projector are called with.   *)
(***************************************************************************)
\* The array with v at index t0 and 0 elsewhere.
UnitAt(index, t0, v) == [t \in index |-> IF t = t0 THEN v ELSE 0]

Plus(A, B) == [t \in DOMAIN A |-> A[t] + B[t]]

\* Amplitudes without any exchange symmetry.
T2Generic == [t \in T2Index |-> 2 * (t[1] + 3 * t[2] + 5 * t[3] + 7 * t[4])]

\* Amplitudes with T2[i,j,a,b] = T2[j,i,b,a], as a converged solver returns.
T2Exchange == [t \in T2Index |-> 2 * (t[1] * t[3] + t[2] * t[4])]

T2Arrays ==
    {T2Generic, T2Exchange}
      \cup {Plus(T2Exchange, UnitAt(T2Index, t0, 2)) : t0 \in T2Index}

T1Generic == [t \in T1Index |-> 2 * (t[1] + 3 * t[2])]

\* The calls' (T1, indices_T1).
T1Calls == {<<NoAmplitudes, NoneSeq>>, <<T1Generic, <<0>> >>,
            <<T1Generic, <<1>> >>}

PEye == [t \in PIndex |-> IF t[1] = t[2] THEN 1 ELSE 0]

PGeneric == [t \in PIndex |-> 2 * t[1] - t[2]]

PArrays ==
    {PEye, PGeneric} \cup {UnitAt(PIndex, t0, 1) : t0 \in PIndex}

ProjectAmplitudes(c) ==
    /\ cl[c].exists
    /\ \E P \in PArrays, T2 \in T2Arrays, t1 \in T1Calls,
          indices_T2 \in IndicesT2, symmetrize_T2 \in BOOLEAN :
         LET r == project_amplitudes(P, t1[1], T2, t1[2], indices_T2,
                                     symmetrize_T2)
         IN /\ UNCHANGED <<cl, mf, base>>
            /\ last' = [op |-> "project_amplitudes", c |-> c,
                        arg |-> [P |-> P, T1 |-> t1[1], T2 |-> T2,
                                 indices_T1 |-> t1[2],
                                 indices_T2 |-> indices_T2,
                                 symmetrize_T2 |-> symmetrize_T2],
                        err |-> r.err, converged |-> FALSE, e_corr |-> 0,
                        reads |-> {}, kernel |-> NoKernel, trials |-> NoTrials,
                        ret |-> [pT1 |-> r.pT1, pT2 |-> r.pT2]]

\* Orbital data of a two-AO cell with one local orbital and one occupied
\* orbital: the overlap S, its square root, the orthonormal orbitals
\* mo_coeff (C.T S C = 1) and the local orbital C_local (C_local.T S C_local
\* = 1).  Rotated: the occupied orbital is (3,4)/5, not the local one.
GeomRotated ==
    [S |-> Real(<< <<1, 0>>, <<0, 1>> >>, 1),
     sqrtS |-> Real(<< <<1, 0>>, <<0, 1>> >>, 1),
     mo_coeff |-> Real(<< <<3, -4>>, <<4, 3>> >>, 5),
     C_local |-> Real(<< <<1>>, <<0>> >>, 1)]

\* The same orbitals in a non-orthogonal AO basis, S = diag(4, 1).
GeomNonOrth ==
    [S |-> Real(<< <<4, 0>>, <<0, 1>> >>, 1),
     sqrtS |-> Real(<< <<2, 0>>, <<0, 1>> >>, 1),
     mo_coeff |-> Real(<< <<3, -4>>, <<8, 6>> >>, 10),
     C_local |-> Real(<< <<1>>, <<0>> >>, 2)]

\* The occupied orbital is the local orbital.
GeomAligned ==
    [S |-> Real(<< <<1, 0>>, <<0, 1>> >>, 1),
     sqrtS |-> Real(<< <<1, 0>>, <<0, 1>> >>, 1),
     mo_coeff |-> Real(<< <<1, 0>>, <<0, 1>> >>, 1),
     C_local |-> Real(<< <<1>>, <<0>> >>, 1)]

\* ao_indices of the cluster (first AO is 1).
AoIndexLists == {<<1>>, <<2>>, <<1, 2>>}

Geometries ==
    {d @@ [ao_indices |-> l, local_orbital_type |-> lot] :
        d \in {GeomRotated, GeomNonOrth, GeomAligned},
        l \in AoIndexLists, lot \in LocalOrbitalTypes}

\* The orbital sets the method is called with: x.C_occact, the virtual
\* counterpart, and the full mo_coeff.
OrbitalSets == {"occupied", "virtual", "full"}

OrbitalSet(g, which) ==
    IF which = "occupied" THEN Real(ColsOf(g.mo_coeff.num, <<1>>), g.mo_coeff.den)
    ELSE IF which = "virtual"
    THEN Real(ColsOf(g.mo_coeff.num, <<2>>), g.mo_coeff.den)
    ELSE g.mo_coeff

GetLocalProjector(c) ==
    /\ cl[c].exists
    /\ \E g \in Geometries, which \in OrbitalSets, kind \in ProjectorKinds,
          inverse \in BOOLEAN :
         LET C == OrbitalSet(g, which)
             r == get_local_projector(cl[c], g, C, kind, inverse)
         IN /\ size(cl[c]) = NCols(g.C_local.num)
            /\ UNCHANGED <<cl, mf, base>>
            /\ last' = [op |-> "get_local_projector", c |-> c,
                        arg |-> [g |-> g, C |-> which, kind |-> kind,
                                 inverse |-> inverse],
                        err |-> r.err, converged |-> FALSE, e_corr |-> 0,
                        reads |-> {}, kernel |-> NoKernel,
                        trials |-> NoTrials, ret |-> r.P]

(***************************************************************************)
(* SpecChempot: one call on a cluster with or without nelectron_target,    *)
(* fresh or after an earlier run, and the other calls a driver can make.   *)
(***************************************************************************)
\* Longest sequence of chemical potentials brentq evaluates.
MaxTrials == 3

\* Electron errors: within ntol, at ntol, and far off on either side; the
\* CASCI of a trial may fail to converge whether or not its error is small.
TrialOutcomes ==
    [converged : {TRUE}, nerr : {-5000, -100, 99, 5000}]
      \cup [converged : {FALSE}, nerr : {99, 5000}]

TrialSeqs == UNION {[1..n -> TrialOutcomes] : n \in 2..MaxTrials}

ChempotOutcomes ==
    {[converged |-> t[Len(t)].converged, e_corr |-> -4, e_local |-> -1,
      C0 |-> 2, C1 |-> 4, C2 |-> 6, pT1 |-> 0, pT2 |-> 0, trials |-> t] :
        t \in TrialSeqs}

Chem ==
    [eig |-> {0, Unit},
     nbath |-> {1}, nocc |-> {1}, kocc |-> {0}, kvir |-> {0},
     occ |-> {Unit},
     vir |-> {0},
     edelta |-> {-1},
     outs |-> ChempotOutcomes,
     rotate |-> FALSE,
     run_solvers |-> {NoneVal},
     solvers |-> {NoneVal}]

\* The result of an earlier cluster.run(solver=solver) that converged
EarlierWith(self, solver) ==
    run(self, [c \in ClusterIds |-> NoCluster], MeanField, BaseObject, solver,
        [dmet |-> [C_bath |-> Fractional(1), C_occenv |-> <<Unit>>,
                   C_virenv |-> [i \in 1..(Len(self.C_env) - 2) |-> 0]],
         e |-> [i \in 1..(size(self) + 1) |-> IF i = 1 THEN 0 ELSE Unit],
         occ |-> [C_bath |-> << >>, C_env |-> <<Unit>>, e_delta |-> -1],
         vir |-> [C_bath |-> << >>,
                  C_env |-> [i \in 1..(Len(self.C_env) - 2) |-> 0],
                  e_delta |-> -1],
         permo |-> [i \in 1..size(self) |-> i],
         permv |-> [i \in 1..1 |-> i],
         out |-> [converged |-> TRUE, e_corr |-> -8, e_local |-> -3,
                  C0 |-> 2, C1 |-> 4, C2 |-> 6, pT1 |-> 0, pT2 |-> 0]])

\* The result of an earlier cluster.run(solver="CCSD") that converged
Earlier(self) == EarlierWith(self, "CCSD")

InitChempot ==
    /\ \E solver \in VALID_SOLVERS \ {NoneVal}, target \in {NoneVal, "2"},
          earlier \in BOOLEAN :
         LET fresh == Built(1, 1, solver, "mp2-natorb",
                            [Kwargs(2, FALSE) EXCEPT !.nelectron_target = target])
         IN /\ cl = [c \in ClusterIds |->
                    IF c = 1 THEN (IF earlier THEN Earlier(fresh).self ELSE fresh)
                    ELSE NoCluster]
            /\ base = IF earlier THEN Earlier(fresh).base ELSE BaseObject
    /\ last = NoCall
    /\ mf = MeanField

NoCallYet == last.op = "none"

NextChempot ==
    \/ NoCallYet /\ Run(1, Chem, MaxIteration)
    \/ NoCallYet /\ RunSolver(1, Chem, MaxIteration)
    \/ NoCallYet /\ Reset(1)
    \/ NoCallYet /\ SetRefdata(1)
    \/ NoCallYet /\ SetDefaultAttributes(1)
    \/ NoCallYet /\ DiagonalizeClusterDm(1)
    \/ NoCallYet /\ Construct(2, {0, 1}, VALID_SOLVERS \cup {"BOGUS"},
                               {"mp2-natorb", "BOGUS"}, {Kwargs(1, FALSE)})

SpecChempot == InitChempot /\ [][NextChempot]_vars

(***************************************************************************)
(* SpecSolve: two clusters solved repeatedly through run() and             *)
(* run_solver(), with and without reference amplitudes on the base; the    *)
(* first cluster in the configurations a driver can give it, the second a  *)
(* CCSD cluster with maxiter 2 that has run once, with MP2 or CCSD as the  *)
(* solver argument, and is solved again.                                   *)
(***************************************************************************)
\* Largest element of base.T1 up to which defaults are restored.
MaxAccumulated == 2

\* A search that ends at its first trial, and one whose first trial does not
\* converge.
SolveTrials ==
    {<<[converged |-> TRUE, nerr |-> 99], [converged |-> TRUE, nerr |-> 5000]>>,
     <<[converged |-> FALSE, nerr |-> 5000], [converged |-> TRUE, nerr |-> -5000]>>}

SolveOutcomes ==
    {[converged |-> t[1].converged, e_corr |-> -4, e_local |-> -1,
      C0 |-> 2, C1 |-> 4, C2 |-> 6,
      pT1 |-> IF t[1].converged THEN 1 ELSE 3, pT2 |-> 2, trials |-> t] :
        t \in SolveTrials}

Solve ==
    [eig |-> {0, Unit},
     nbath |-> {1}, nocc |-> {1}, kocc |-> {0}, kvir |-> {0},
     occ |-> {Unit},
     vir |-> {0},
     edelta |-> {-1},
     outs |-> SolveOutcomes,
     rotate |-> FALSE,
     run_solvers |-> {NoneVal},
     solvers |-> {NoneVal, "MP2", "BOGUS"}]

\* The second cluster is solved with its own solver.
SolveAgain == [Solve EXCEPT !.solvers = {NoneVal}]

\* The first cluster's solver and keyword arguments and the reference
\* amplitudes of the base: coupled_bath and reference amplitudes with CCSD,
\* nelectron_target with CISD and FCI, solver_options with FCI.
SolveConfigs ==
    {[solver |-> sv, tcc |-> tcc,
      kwargs |-> [Kwargs(m, cb) EXCEPT !.nelectron_target = nt,
                                       !.solver_options = so]] :
       sv \in {"MP2", "CCSD", "CISD", "FCI-spin0"}, m \in {1, 2},
       cb \in BOOLEAN, nt \in {NoneVal, "2"},
       so \in {{}, {"fix_spin", "max_cycle"}}, tcc \in {NoArray, <<2>>}}

SolveConfig(k) ==
    /\ k.kwargs.coupled_bath => k.solver = "CCSD"
    /\ k.tcc # NoArray => k.solver = "CCSD"
    /\ k.kwargs.nelectron_target # NoneVal => k.solver \in {"CISD", "FCI-spin0"}
    /\ k.kwargs.solver_options # {} => k.solver = "FCI-spin0"

InitSolve ==
    /\ \E k \in {x \in SolveConfigs : SolveConfig(x)}, ran \in {"MP2", "CCSD"} :
         LET second == EarlierWith(Built(2, 1, "CCSD", "mp2-natorb",
                                         Kwargs(2, FALSE)), ran)
         IN /\ cl = [c \in ClusterIds |->
                      IF c = 1 THEN Built(c, 1, k.solver, "mp2-natorb", k.kwargs)
                      ELSE second.self]
            /\ base = [second.base EXCEPT !.tccT1 = k.tcc, !.tccT2 = k.tcc]
    /\ last = NoCall
    /\ mf = MeanField

\* The accumulator is small enough for the model to go on
Accumulating ==
    IF base.T1 = NoArray THEN TRUE ELSE base.T1[1] < MaxAccumulated

NextSolve ==
    \/ Run(1, Solve, MaxIteration)
    \/ RunSolver(1, Solve, MaxIteration)
    \/ Accumulating /\ SetDefaultAttributes(1)
    \/ RunSolver(2, SolveAgain, MaxIteration)

SpecSolve == InitSolve /\ [][NextSolve]_vars

(***************************************************************************)
(* SpecProj: project_amplitudes and get_local_projector applied once to    *)
(* the arrays a caller can pass.                                           *)
(***************************************************************************)
InitProj ==
    /\ cl = [c \in ClusterIds |->
               IF c = 1 THEN Built(c, 1, "CCSD", "mp2-natorb", Kwargs(1, FALSE))
               ELSE NoCluster]
    /\ last = NoCall
    /\ mf = MeanField
    /\ base = BaseObject

NextProj ==
    \/ NoCallYet /\ ProjectAmplitudes(1)
    \/ NoCallYet /\ GetLocalProjector(1)

SpecProj == InitProj /\ [][NextProj]_vars

(***************************************************************************)
(* k2gamma.py: unfolding of k-point sampled three-center integrals.        *)
(* A complex number is the pair <<re, im>> of integers, in units of 1e-8.  *)
(* The k-mesh is one-dimensional with nk points k_i = i/nk (k_0 is the     *)
(* Gamma point) and the cells R = 0..nk-1 of the supercell; the phase      *)
(* exp(i R k) is then a power of the nk-th root of unity, exact for nk in  *)
(* {1, 2, 4}.  get_phase normalises the phases by 1/sqrt(nk): the tensors  *)
(* here are the integer numerators, nk times the arrays of the code.       *)
(* Every step of the unfolding treats the auxiliary index L alike, so the  *)
(* arrays are those of one auxiliary function: j3c_k[L] and j3c[:,L].      *)
(***************************************************************************)
\* Number of AOs of the primitive cell.
NAO == 2

\* DEFAULT_IMAG_TOL = 1e-7
DEFAULT_IMAG_TOL == 10

KMeshes == {1, 2, 4}

\* An array held in memory: the function with every element computed.
Stored(A) == A @@ << >>

KIdx(nk) == 0..(nk - 1)

CAdd(x, y) == <<x[1] + y[1], x[2] + y[2]>>

CMul(x, y) == <<x[1] * y[1] - x[2] * y[2], x[1] * y[2] + x[2] * y[1]>>

CConj(x) == <<x[1], -x[2]>>

CZero == <<0, 0>>

\* The powers of i.
PowerOfI(p) ==
    CASE p % 4 = 0 -> <<1, 0>>
      [] p % 4 = 1 -> <<0, 1>>
      [] p % 4 = 2 -> <<-1, 0>>
      [] OTHER -> <<0, -1>>

\* phase[R, i] of pyscf's get_phase, times sqrt(nk).
Phase(nk, R, i) == PowerOfI((4 \div nk) * R * i)

\* kpts_helper.get_kconserv(cell, kpts)[:,:,0]: the l with k_l = k_i - k_j.
kconserv(nk, i, j) == (i - j) % nk

\* Index tuples <<i, a, j, b>> of j3c_k[L], shape (nk, nao, nk, nao).
J3cKIndex(nk) == KIdx(nk) \X (1..NAO) \X KIdx(nk) \X (1..NAO)

\* Index tuples <<l, R, a, S, b>> of j3c[:,L], shape (nk, nk*nao, nk*nao).
J3cIndex(nk) == KIdx(nk) \X KIdx(nk) \X (1..NAO) \X KIdx(nk) \X (1..NAO)

\* Position of (R, a) along an axis of length nk*nao.
Flat(R, a) == R * NAO + a

\* pack_tril keeps the entries of the lower triangle.
PackedIndex(nk) == {t \in J3cIndex(nk) : Flat(t[4], t[5]) <= Flat(t[2], t[3])}

\* The (i, j) of the two nested loops, in the order they are run.
RowPairs(i, m) == [n \in 1..m |-> <<i, n - 1>>]

RECURSIVE LoopPairs(_, _, _)
LoopPairs(i, nk, half) ==
    IF i = nk THEN << >>
    ELSE RowPairs(i, IF half THEN i + 1 ELSE nk) \o LoopPairs(i + 1, nk, half)

\* What one pass of the half loop adds with the transposed block put into
\* the slot of the pair itself.
HalfPass_sameslot(nk, i, j) ==
    <<[i |-> i, j |-> j, slot |-> kconserv(nk, i, j), transposed |-> FALSE]>>
      \o (IF i # j
          THEN <<[i |-> i, j |-> j, slot |-> kconserv(nk, i, j),
                  transposed |-> TRUE]>>
          ELSE << >>)

\* What one pass of the half loop (j <= i) adds: the block of (i, j) to the
\* slot kconserv[i,j] and, if i != j, its conjugate transpose to the slot
\* kconserv[j,i].
HalfPass(nk, i, j) ==
    <<[i |-> i, j |-> j, slot |-> kconserv(nk, i, j), transposed |-> FALSE]>>
      \o (IF i # j
          THEN <<[i |-> i, j |-> j, slot |-> kconserv(nk, j, i),
                  transposed |-> TRUE]>>
          ELSE << >>)

\* What one pass of the full loop adds.
FullPass(nk, i, j) ==
    <<[i |-> i, j |-> j, slot |-> kconserv(nk, i, j), transposed |-> FALSE]>>

RECURSIVE Passes(_, _, _, _)
Passes(pairs, n, nk, half) ==
    IF n > Len(pairs) THEN << >>
    ELSE (IF half THEN HalfPass(nk, pairs[n][1], pairs[n][2])
                  ELSE FullPass(nk, pairs[n][1], pairs[n][2]))
           \o Passes(pairs, n + 1, nk, half)

\* The additions to j3c of the whole loop, in order.
Additions(nk, half) == Passes(LoopPairs(0, nk, half), 1, nk, half)

\* einsum("Lab,R,S->LRaSb", j3c_k[:,i,:,j], phase[:,i], phase[:,j].conj())
\* at <<R, a, S, b>>.
Block(J, nk, i, j, R, a, S, b) ==
    CMul(CMul(J[<<i, a, j, b>>], Phase(nk, R, i)), CConj(Phase(nk, S, j)))

\* What one addition p adds at the entry t = <<l, R, a, S, b>> of its slot;
\* tmp.transpose([0,2,1]).conj() exchanges (R, a) with (S, b).
AddedAt(J, nk, p, t) ==
    IF p.transposed
    THEN CConj(Block(J, nk, p.i, p.j, t[4], t[5], t[2], t[3]))
    ELSE Block(J, nk, p.i, p.j, t[2], t[3], t[4], t[5])

RECURSIVE SumAdditions(_, _, _, _, _)
SumAdditions(J, nk, adds, n, t) ==
    IF n = 0 THEN CZero
    ELSE CAdd(SumAdditions(J, nk, adds, n - 1, t), AddedAt(J, nk, adds[n], t))

IntoSlot(adds, l) ==
    LET into(p) == p.slot = l
    IN SelectSeq(adds, into)

\* j3c after the unfolding loop: j3c[l] is the sum of what was added to it.
Unfold(J, nk, compact, use_kpts_sym) ==
    LET adds == Additions(nk, use_kpts_sym)
        slot == Stored([l \in KIdx(nk) |-> IntoSlot(adds, l)])
    IN Stored([t \in (IF compact THEN PackedIndex(nk) ELSE J3cIndex(nk)) |->
                 SumAdditions(J, nk, slot[t[1]], Len(slot[t[1]]), t)])

\* abs(A.imag).max() of a non-empty array.
MaxImag(A) ==
    LET imag == {Abs(A[t][2]) : t \in DOMAIN A}
    IN CHOOSE m \in imag : \A v \in imag : v <= m

\* A.real
RealPart(A) == Stored([t \in DOMAIN A |-> <<A[t][1], 0>>])

\* get_j3c_from_gdf: j3c_k from the blocks B[:,i,:,j,:] that gdf.sr_loop
\* yields for the pair (k_i, k_j).  The half loop asks for the pairs j <= i
\* only and fills [:,j,:,i,:] with the conjugate transpose.
get_j3c_from_gdf(B, nk, use_kpts_sym, imag_tol) ==
    LET j3c_k == IF use_kpts_sym
                 THEN Stored([t \in J3cKIndex(nk) |->
                                IF t[3] <= t[1] THEN B[t]
                                ELSE CConj(B[<<t[3], t[4], t[1], t[2]>>])])
                 ELSE B
    IN IF imag_tol # 0 /\ MaxImag(j3c_k) < imag_tol
       THEN RealPart(j3c_k) ELSE j3c_k

\* "Discard imaginary part if close to zero"; j3c holds nk times the
\* elements the code compares with imag_tol.
DiscardImag(j3c, nk, imag_tol) ==
    LET max_imag == MaxImag(j3c)
    IN IF imag_tol # 0 /\ max_imag < nk * imag_tol
       THEN [j3c |-> RealPart(j3c), dtype |-> "float", max_imag |-> max_imag]
       ELSE [j3c |-> j3c, dtype |-> "complex", max_imag |-> max_imag]

\* The levels at which gdf_k2gamma writes to the log on its way to the
\* return: log.debug (memory, time, max imaginary element) and log.info
\* (symmetry error).
K2GammaLog == {"debug", "info"}

\* gdf_k2gamma(cell, gdf, kpts, compact, use_kpts_sym, imag_tol); gdf is a
\* GDF object (its sr_loop blocks) or one that holds the array _cderi.
gdf_k2gamma(gdf, nk, compact, use_kpts_sym, imag_tol) ==
    IF gdf.type \notin {"ndarray", "GDF"}
    THEN [err |-> "ValueError: Invalid type for gdf", j3c_k |-> << >>,
          j3c |-> << >>, dtype |-> NoneVal, max_imag |-> 0, log |-> {}]
    ELSE LET j3c_k == IF gdf.type = "ndarray" THEN gdf.blocks
                      ELSE get_j3c_from_gdf(gdf.blocks, nk, use_kpts_sym,
                                            DEFAULT_IMAG_TOL)
             d == DiscardImag(Unfold(j3c_k, nk, compact, use_kpts_sym),
                              nk, imag_tol)
         IN [err |-> "none", j3c_k |-> j3c_k, j3c |-> d.j3c,
             dtype |-> d.dtype, max_imag |-> d.max_imag, log |-> K2GammaLog]

(***************************************************************************)
(* SpecK2G: gdf_k2gamma applied once to k-point sampled integrals.         *)
(***************************************************************************)
\* Sizes of the imaginary parts: none, below the tolerance, at it and above.
ImagScales == {0, 1, DEFAULT_IMAG_TOL, 3 * DEFAULT_IMAG_TOL}

\* Blocks with B[:,j,:,i,:] the conjugate transpose of B[:,i,:,j,:].
HermitianBlocks(nk, e) ==
    Stored([t \in J3cKIndex(nk) |->
              <<100 + 10 * (t[1] + t[3]) + 7 * t[1] * t[3] + t[2] * t[4],
                e * (t[2] - t[4] + 3 * (t[1] - t[3]))>>])

\* Blocks without that relation.
GenericBlocks(nk, e) ==
    Stored([t \in J3cKIndex(nk) |->
              <<100 + 10 * t[1] + 3 * t[3] + t[2] + 2 * t[4],
                e * (t[1] + 2 * t[3] + t[2])>>])

\* A with d added to the element of the k-point pair (i, j) between the
\* first and the last AO.
Perturbed(A, i, j, d) ==
    [A EXCEPT ![<<i, 1, j, NAO>>] = CAdd(@, d)]

\* The k-point pairs whose block is perturbed.
PerturbedPairs(nk) == {<<0, 0>>, <<nk - 1, 0>>, <<0, nk - 1>>}

BlockArrays(nk) ==
    UNION {{HermitianBlocks(nk, e), GenericBlocks(nk, e)}
             \cup {Perturbed(HermitianBlocks(nk, e), p[1], p[2], <<2, e>>) :
                     p \in PerturbedPairs(nk)} :
           e \in ImagScales}

GdfObjects(nk) ==
    [type : {"ndarray", "GDF"}, blocks : BlockArrays(nk)]
      \cup {[type |-> "str", blocks |-> << >>]}

\* imag_tol: the default, and 0 (no discarding).
ImagTols == {DEFAULT_IMAG_TOL, 0}

\* The call and what it returned, as the caller sees it.
K2GammaReturned(nk, gdf, compact, use_kpts_sym, imag_tol, r) ==
    [op |-> "gdf_k2gamma", c |-> 0,
     arg |-> [nk |-> nk, gdf |-> gdf.type, compact |-> compact,
              use_kpts_sym |-> use_kpts_sym, imag_tol |-> imag_tol,
              j3c_k |-> r.j3c_k],
     err |-> r.err, converged |-> FALSE, e_corr |-> 0,
     reads |-> {}, kernel |-> NoKernel, trials |-> NoTrials,
     ret |-> [j3c |-> r.j3c, dtype |-> r.dtype, log |-> r.log],
     max_imag |-> r.max_imag]

GdfK2Gamma ==
    \E nk \in KMeshes :
    \E gdf \in GdfObjects(nk), compact \in BOOLEAN, use_kpts_sym \in BOOLEAN,
       imag_tol \in ImagTols :
      /\ UNCHANGED <<cl, mf, base>>
      /\ last' = K2GammaReturned(nk, gdf, compact, use_kpts_sym, imag_tol,
                    gdf_k2gamma(gdf, nk, compact, use_kpts_sym, imag_tol))

\* k2gamma_3c2e(cell, gdf, kpts): inside the module the name k2gamma is the
\* function k2gamma(mf, kpts, unfold_j3c), which has no attribute get_phase,
\* so the call ends at its first use, before any integral is unfolded.
k2gamma_3c2e(gdf, nk) ==
    [err |-> "AttributeError", j3c_k |-> << >>, j3c |-> << >>,
     dtype |-> NoneVal, max_imag |-> 0, log |-> {}]

K2Gamma3c2e ==
    \E nk \in KMeshes :
    \E gdf \in GdfObjects(nk) :
      /\ UNCHANGED <<cl, mf, base>>
      /\ last' = [K2GammaReturned(nk, gdf, FALSE, FALSE, 0,
                                  k2gamma_3c2e(gdf, nk))
                    EXCEPT !.op = "k2gamma_3c2e"]

\* k2gamma(mf, kpts, unfold_j3c): the supercell mean-field of
\* pyscf_k2gamma.k2gamma gets e_tot = ncells * mf.e_tot and converged =
\* mf.converged; with a GDF it is density-fitted and, if unfold_j3c, given
\* the integrals of k2gamma_3c2e as with_df._cderi.  The result: the
\* exception raised ("none") and the mean-field returned (None if it raised).
k2gamma(mfk, ncells, unfold_j3c) ==
    LET mf_sc == [e_tot |-> ncells * mfk.e_tot, converged |-> mfk.converged,
                  with_df |-> "FFTDF", cderi |-> NoneVal]
    IN IF mfk.with_df = "GDF"
       THEN LET fitted == [mf_sc EXCEPT !.with_df = "GDF"]
            IN IF unfold_j3c
               THEN LET r == k2gamma_3c2e(mfk.gdf, ncells)
                    IN IF r.err # "none"
                       THEN [err |-> r.err, mf_sc |-> NoneVal]
                       ELSE [err |-> "none",
                             mf_sc |-> [fitted EXCEPT !.cderi = r.j3c]]
               ELSE [err |-> "none", mf_sc |-> fitted]
       ELSE [err |-> "none", mf_sc |-> mf_sc]

\* The k-point mean-fields k2gamma is called with: total energy per cell,
\* convergence flag and density fitting.
KPointMeanFields(nk) ==
    {[e_tot |-> e, converged |-> cv, with_df |-> df, gdf |-> g] :
        e \in {-3, -5}, cv \in BOOLEAN, df \in {"GDF", "FFTDF"},
        g \in {x \in GdfObjects(nk) : x.type = "GDF"}}

K2Gamma ==
    \E nk \in KMeshes :
    \E mfk \in KPointMeanFields(nk), unfold_j3c \in BOOLEAN :
      LET r == k2gamma(mfk, nk, unfold_j3c)
      IN /\ UNCHANGED <<cl, mf, base>>
         /\ last' = [op |-> "k2gamma", c |-> 0,
                     arg |-> [nk |-> nk, e_tot |-> mfk.e_tot,
                              converged |-> mfk.converged,
                              with_df |-> mfk.with_df,
                              unfold_j3c |-> unfold_j3c],
                     err |-> r.err, converged |-> FALSE, e_corr |-> 0,
                     reads |-> {}, kernel |-> NoKernel, trials |-> NoTrials,
                     ret |-> r.mf_sc]

InitK2G ==
    /\ cl = [c \in ClusterIds |-> NoCluster]
    /\ last = NoCall
    /\ mf = MeanField
    /\ base = BaseObject

NextK2G ==
    \/ NoCallYet /\ GdfK2Gamma
    \/ NoCallYet /\ K2Gamma3c2e
    \/ NoCallYet /\ K2Gamma

SpecK2G == InitK2G /\ [][NextK2G]_vars

(***************************************************************************)
(* Properties.                                                             *)
(***************************************************************************)
IsCall == last.op \in {"run", "run_solver"}

\* C1: a constructor call with an empty C_local raises ValueError and leaves
\* no cluster; a cluster that exists has size >= 1, its size is the number of
\* columns the caller passed, and no step of run, run_solver, set_refdata,
\* set_default_attributes or reset changes C_local.
C1_SizeIsColumnsOfCLocal ==
    /\ [](\A c \in ClusterIds : cl[c].exists => size(cl[c]) >= 1)
    /\ [](last.op = "init" =>
            IF last.arg.ncols = 0
            THEN last.err = "ValueError: No local orbitals" /\ ~cl[last.c].exists
            ELSE cl[last.c].exists => size(cl[last.c]) = last.arg.ncols)
    /\ [][\A c \in ClusterIds :
            cl[c].exists => cl'[c].exists /\ cl'[c].C_local = cl[c].C_local]_vars

C1_Witness ==
    /\ last.op = "reset"
    /\ cl[1].exists
    /\ cl[1].iteration >= 1
    /\ size(cl[1]) = MaxLocal

C3_BathTypeCheckedLast ==
    /\ (last.op = "init" /\ last.err = "ValueError: Unknown bath type") =>
          /\ last.arg.bath_type \notin VALID_BATH_TYPES
          /\ last.arg.ncols # 0
          /\ last.arg.solver \in VALID_SOLVERS
          /\ cl[last.c] = NoCluster
    /\ (last.op = "init" /\ last.arg.bath_type \notin VALID_BATH_TYPES) =>
          /\ cl[last.c] = NoCluster
          /\ last.err = (IF last.arg.ncols = 0
                         THEN "ValueError: No local orbitals"
                         ELSE IF last.arg.solver \notin VALID_SOLVERS
                         THEN "ValueError: Unknown solver"
                         ELSE "ValueError: Unknown bath type")
    /\ \A c \in ClusterIds : cl[c].exists => cl[c].bath_type \in VALID_BATH_TYPES

C3_Witness ==
    /\ last.op = "init"
    /\ last.err = "ValueError: Unknown bath type"
    /\ last.arg.solver = "MP2"

\* C4: once run() has stored the index lists, frozen_occ, active_occ,
\* active_vir and frozen_vir are consecutive ranges that together are
\* 0..N-1, active and frozen are their concatenations, and mo_occ is 2 on the
\* first No = |frozen_occ| + |active_occ| indices and 0 on the rest.
C4_IndexListsPartition ==
    \A c \in ClusterIds :
      (cl[c].exists /\ cl[c].mo_coeff # NoneSeq) =>
        LET s == cl[c]
            N == Len(s.mo_coeff)
            No == Len(s.frozen_occ) + Len(s.active_occ)
        IN /\ s.frozen_occ \o s.active_occ \o s.active_vir \o s.frozen_vir
                 = [i \in 1..N |-> i - 1]
           /\ s.active = s.active_occ \o s.active_vir
           /\ s.frozen = s.frozen_occ \o s.frozen_vir
           /\ Len(s.mo_occ) = N
           /\ \A i \in 1..N : s.mo_occ[i] = (IF i <= No THEN 2 ELSE 0)
           /\ \A i \in 1..N : (s.mo_coeff[i] > Unit \div 2) <=> (i <= No)

C4_Witness ==
    /\ last.op = "run"
    /\ last.err = "none"
    /\ Len(cl[1].frozen_occ) >= 1
    /\ Len(cl[1].active_occ) >= 1
    /\ Len(cl[1].active_vir) >= 1
    /\ Len(cl[1].frozen_vir) >= 1

\* C5: the orbitals a cluster has stored for the solver have mean-field
\* occupation within tolerance of 2 (occupied) and of 0 (virtual); a run()
\* whose assembled orbitals violate this raises AssertionError and leaves
\* mo_coeff, mo_occ, active, frozen and the iteration counter as they were,
\* and a run() whose orbitals satisfy it stores them and enters run_solver.
OccTol(self, target) == 2 * self.dmet_bath_tol + (target \div NumpyRtolInv)

OccWithin(self, C, target) ==
    \A i \in 1..Len(C) : Abs(2 * C[i] - target) <= OccTol(self, target)

C6_DiagonalizeClusterDm ==
    last.op = "diagonalize_cluster_dm" =>
      LET self == cl[last.c]
          e == last.arg.e
          tol == self.dmet_bath_tol
          far == \E i \in 1..Len(e) : Abs(e[i]) > tol /\ Abs(e[i] - Unit) > tol
          C_occclst == last.ret[1]
          C_virclst == last.ret[2]
          C == C_occclst \o C_virclst
      IN IF far
         THEN last.err = "RuntimeError"
         ELSE /\ last.err = "none"
              /\ Len(C_occclst) = Cardinality({i \in 1..Len(e) : 2 * e[i] > Unit})
              /\ Len(C) = size(self) + Len(last.arg.C_bath)
              /\ \A i \in 1..Len(C) : C[i] = e[Len(e) + 1 - i]
              /\ \A i \in 1..(Len(C) - 1) : C[i] >= C[i + 1]

C6_Witness ==
    /\ last.op = "diagonalize_cluster_dm"
    /\ last.err = "none"
    /\ cl[1].dmet_bath_tol = 1
    /\ Len(last.ret[1]) >= 1
    /\ Len(last.ret[2]) >= 1
    /\ \E i \in 1..Len(last.arg.e) : last.arg.e[i] = Unit - 1

\* C7: a run() or run_solver() in which a solver ran (no nelectron_target)
\* returns normally whether or not the solver converged; the returned
\* converged and the cluster's converged flag equal the solver's status
\* (True for MP2), e_corr is the local energy and e_corr_full the solver's
\* correlation energy times the energy factor; a call that returns without
\* a solver reports converged True.
C7_NonConvergenceIsRecorded ==
    /\ (IsCall /\ last.kernel.ran) =>
          LET self == cl[last.c]
              k == last.kernel
          IN /\ last.err = "none"
             /\ self.nelectron_target = NoneVal
             /\ k.solver \in {"MP2", "CCSD", "CISD", "FCI-spin0", "FCI-spin1"}
             /\ last.converged = self.converged
             /\ self.converged = (k.solver = "MP2" \/ k.converged)
             /\ last.e_corr = self.e_corr
             /\ self.e_corr = k.e_local
             /\ self.e_corr_full = self.symmetry_factor * k.e_corr
    /\ (IsCall /\ last.err = "none" /\ ~last.kernel.ran) =>
          last.converged /\ cl[last.c].converged

C7_Witness ==
    /\ last.op = "run"
    /\ last.err = "none"
    /\ last.kernel.ran
    /\ last.kernel.solver = "CCSD"
    /\ ~last.kernel.converged
    /\ ~cl[1].converged

\* C8: reset() completes and restores the default run state: iteration 0,
\* converged False, e_corr 0, e_delta_mp2 0, amplitudes empty, eris None,
\* active and frozen lists None, bath orbitals None.
C8_ResetRestoresDefaults ==
    last.op = "reset" =>
      LET self == cl[last.c]
      IN /\ last.err = "none"
         /\ self.iteration = 0
         /\ ~self.converged
         /\ self.e_corr = 0
         /\ self.e_delta_mp2 = 0
         /\ self.amplitudes = {}
         /\ self.eris = NoEris
         /\ self.active = NoneSeq
         /\ self.frozen = NoneSeq
         /\ self.C_bath = NoneSeq
         /\ self.C_occbath = NoneSeq
         /\ self.C_virbath = NoneSeq

\* C9: when the tailoring step of a cluster's iteration k+1 (k >= 1) looks at
\* another cluster that runs a full-CI solver, that cluster has finished its
\* iteration k and its amplitudes are published.
C9_TailoringReadsPublished ==
    (IsCall /\ last.err = "none" /\ cl[last.c].iteration >= 2) =>
      \A r \in last.reads :
        cl[r.x].solver \in {"FCI-spin0", "FCI-spin1"} =>
          /\ r.x_iteration >= cl[last.c].iteration - 1
          /\ r.found

\* C10: after a run_solver in which a full-CI solver ran, the amplitudes
\* store holds C1 and C2 divided by C0.
C10_FCIStoresAmplitudes ==
    (IsCall /\ last.err = "none" /\ last.kernel.ran
        /\ last.kernel.solver \in {"FCI-spin0", "FCI-spin1"}) =>
      cl[last.c].amplitudes \in
        {{<<"C1", o.C1 \div o.C0>>, <<"C2", o.C2 \div o.C0>>} : o \in SolverOutcomes}

\* A call that entered the chemical-potential branch of CISD or FCI
InChempot == IsCall /\ last.trials.seq # << >>

\* The search gets as far as evaluating trial n: the trials before it
\* converged and missed the target, and the errors at the two ends of the
\* bracket differ in sign.
ReachesTrial(seq, n) ==
    /\ n \in 1..Len(seq)
    /\ \A m \in 1..(n - 1) : seq[m].converged /\ Abs(seq[m].nerr) >= NTol
    /\ n >= 3 => ~((seq[1].nerr > 0) <=> (seq[2].nerr > 0))

\* C11 as stated: with nelectron_target set, the CISD path and the FCI path
\* both search, stop at the first trial within 1e-6 of the target, and
\* run_solver returns a result.
C11_RootSearchOnBothPaths ==
    InChempot =>
      \A n \in 1..Len(last.trials.seq) :
        (/\ ReachesTrial(last.trials.seq, n)
         /\ last.trials.seq[n].converged
         /\ Abs(last.trials.seq[n].nerr) < NTol) =>
           /\ last.err = "none"
           /\ last.trials.used = n
           /\ last.kernel.ran

\* C11 amended: with nelectron_target set, the FCI path searches, stops at
\* the first trial within 1e-6 of the target and run_solver returns the
\* result of that trial; the CISD path raises NotImplementedError before any
\* trial and records nothing.
C11_RootSearchOnFCIPath ==
    InChempot =>
      LET self == cl[last.c]
          seq == last.trials.seq
      IN IF self.solver = "CISD"
         THEN /\ last.err = "NotImplementedError"
              /\ last.trials.used = 0
              /\ ~last.kernel.ran
         ELSE /\ self.solver \in {"FCI-spin0", "FCI-spin1"}
              /\ \A n \in 1..Len(seq) :
                   (/\ ReachesTrial(seq, n)
                    /\ seq[n].converged
                    /\ Abs(seq[n].nerr) < NTol) =>
                      /\ last.err = "none"
                      /\ last.trials.used = n
                      /\ last.kernel.ran
                      /\ last.converged /\ self.converged
                      /\ self.e_corr = last.e_corr
                      /\ self.e_corr = last.kernel.e_local
                      /\ self.e_corr_full = self.symmetry_factor * last.kernel.e_corr

C11_Witness ==
    /\ InChempot
    /\ cl[1].solver = "FCI-spin0"
    /\ last.err = "none"
    /\ last.trials.used = 2
    /\ Len(last.trials.seq) > 2
    /\ Abs(last.trials.seq[2].nerr) < NTol

\* C12: a trial of the root search at which the solver did not converge
\* ends the call with an error at that trial, also when its electron count
\* is within tolerance, and converged, e_corr and e_corr_full of the cluster
\* stay as they were before the call.
C12_NonConvergedTrialAborts ==
    [][(IsCall' /\ last'.trials.seq # << >> /\ cl[last'.c].solver # "CISD") =>
         \A n \in 1..Len(last'.trials.seq) :
           (ReachesTrial(last'.trials.seq, n) /\ ~last'.trials.seq[n].converged) =>
              /\ last'.err = "AssertionError"
              /\ last'.trials.used = n
              /\ ~last'.kernel.ran
              /\ cl'[last'.c].converged = cl[last'.c].converged
              /\ cl'[last'.c].e_corr = cl[last'.c].e_corr
              /\ cl'[last'.c].e_corr_full = cl[last'.c].e_corr_full]_vars

C12_Witness ==
    /\ InChempot
    /\ last.err = "AssertionError"
    /\ last.trials.used = 2
    /\ Abs(last.trials.seq[2].nerr) < NTol
    /\ cl[1].converged
    /\ cl[1].e_corr = -3

\* C19: no operation of a cluster changes the shared mean-field object:
\* its methods and data are in every state what they were at construction.
C19_MeanFieldReadOnly ==
    mf = MeanField

C19_Witness ==
    /\ last.op = "run"
    /\ cl[1].solver = "CISD"
    /\ cl[1].nelectron_target # NoneVal
    /\ last.err = "NotImplementedError"
    /\ mf = MeanField


\* pT2[x,y,a,b] = pT2[y,x,b,a] for all (x,y,a,b).
IsExchangeSymmetric(pT2) ==
    \A t \in T2Index : pT2[t] = pT2[<<t[2], t[1], t[4], t[3]>>]

\* The projection of the last call's arrays without the symmetrization.
Unsymmetrized ==
    project_amplitudes(last.arg.P, last.arg.T1, last.arg.T2,
                       last.arg.indices_T1, last.arg.indices_T2, FALSE).pT2

\* C13: for every P, T2 and index mode [0], [1], [0,1], project_amplitudes
\* with symmetrize_T2=True returns pT2 with pT2[x,y,a,b] = pT2[y,x,b,a], and
\* where the projected pT2 is symmetric already the symmetrization returns
\* it unchanged.
C13_SymmetrizedT2 ==
    (last.op = "project_amplitudes" /\ last.err = "none"
       /\ last.arg.symmetrize_T2)
      => /\ IsExchangeSymmetric(last.ret.pT2)
         /\ IsExchangeSymmetric(Unsymmetrized) => last.ret.pT2 = Unsymmetrized

\* C13 happens: a doubly projected T2 that is not symmetric was symmetrized.
C13_Witness ==
    /\ last.op = "project_amplitudes" /\ last.err = "none"
    /\ last.arg.symmetrize_T2
    /\ last.arg.indices_T2 = <<0, 1>>
    /\ ~IsExchangeSymmetric(Unsymmetrized)
    /\ last.ret.pT2 # Unsymmetrized

\* P.P = P
Idempotent(P) == RSame(RDot(P, P), P)

\* A call of get_local_projector in one of the supported conventions.
SupportedProjection ==
    /\ last.op = "get_local_projector"
    /\ \/ last.arg.g.local_orbital_type \in {"IAO", "LAO", "PMO"}
       \/ /\ last.arg.g.local_orbital_type \in {"AO", "NonOrth-IAO"}
          /\ last.arg.kind \in {"right", "left", "center"}

\* C14 as stated: in every supported convention and for every orbital set
\* (occupied-active, virtual-active or full) the returned P, and likewise
\* the inverse variant I - P, is idempotent.
C14_ProjectorIdempotent ==
    SupportedProjection => (last.err = "none" /\ Idempotent(last.ret))

\* C14 amended: in every supported convention the matrix returned for the
\* full orthonormal orbital set, P or I - P, is idempotent.
C14_FullSetIdempotent ==
    (SupportedProjection /\ last.arg.C = "full")
      => (last.err = "none" /\ Idempotent(last.ret))

\* C14 happens: the inverse projector of the full orbital set in a
\* non-orthogonal AO basis, neither 0 nor 1.
C14_Witness ==
    /\ SupportedProjection /\ last.arg.C = "full" /\ last.arg.inverse
    /\ last.arg.g.S = GeomNonOrth.S
    /\ last.arg.g.local_orbital_type = "AO" /\ last.arg.kind = "center"
    /\ last.err = "none"
    /\ ~RSame(last.ret, Real(Eye(2), 1))
    /\ ~RSame(last.ret, Real(Scaled(Eye(2), 0), 1))

\* A call of get_local_projector with a kind that is none of the three.
UnknownKind ==
    /\ last.op = "get_local_projector"
    /\ last.arg.kind \notin {"right", "left", "center"}

\* C15 as stated: a kind other than 'right', 'left', 'center' raises and
\* returns no projector, whatever the local orbital type.
C15_UnknownKindAlwaysRaises ==
    UnknownKind => last.err # "none"

\* C15 amended: an unknown kind raises ValueError when the local orbital
\* type is AO or NonOrth-IAO; for IAO, LAO and PMO the kind is not looked
\* at and the overlap projector is returned.
C15_UnknownKindRaisesForAOTypes ==
    UnknownKind =>
      /\ last.arg.g.local_orbital_type \in {"AO", "NonOrth-IAO"}
           => last.err = "ValueError: Unknown kind"
      /\ last.arg.g.local_orbital_type \in {"IAO", "LAO", "PMO"}
           => /\ last.err = "none"
              /\ last.ret = get_local_projector(cl[last.c], last.arg.g,
                                OrbitalSet(last.arg.g, last.arg.C), "right",
                                last.arg.inverse).P

\* C15 happens: an AO-type cluster was asked for an unknown kind.
C15_Witness ==
    /\ UnknownKind
    /\ last.arg.g.local_orbital_type = "AO"
    /\ last.err = "ValueError: Unknown kind"


\* A step in which run_solver was entered: called directly, or by a run()
\* that got past the bath construction and the occupation check.
EntersRunSolver ==
    \/ last'.op = "run_solver"
    \/ last'.op = "run" /\ last'.err \notin {"RuntimeError", "AssertionError"}

\* C20 as stated: over any sequence of run and run_solver calls the
\* iteration counter of a cluster never exceeds its maxiter.
C20_IterationWithinMaxiter ==
    \A c \in ClusterIds : cl[c].exists => cl[c].iteration <= cl[c].maxiter

\* C20 amended: the cluster does not hold its counter at maxiter: every
\* entry into run_solver raises the counter by exactly one, also when the
\* counter has reached maxiter already; maxiter itself never changes.
C20_IterationCountsEntries ==
    [][EntersRunSolver =>
         /\ cl'[last'.c].iteration = cl[last'.c].iteration + 1
         /\ cl'[last'.c].maxiter = cl[last'.c].maxiter]_vars

\* C20 happens: a cluster with maxiter = 1 has entered run_solver twice.
C20_Witness ==
    /\ last.op \in {"run", "run_solver"}
    /\ cl[1].exists /\ cl[1].maxiter = 1 /\ cl[1].iteration = 2


\* A call of gdf_k2gamma that got to its return.
Unfolded == last.op = "gdf_k2gamma" /\ last.err = "none"

\* abs(j3c.imag).max() after the unfolding loop (last.max_imag holds nk
\* times it) is at or above the default tolerance of the call.
ResidualAtOrAboveTol == last.max_imag >= last.arg.nk * DEFAULT_IMAG_TOL

\* C16 as stated: the imaginary part of the unfolded integrals is discarded
\* (a real tensor is returned) exactly when its largest absolute element is
\* below the tolerance; a residual at or above the tolerance is surfaced as
\* a warning or an error and the call does not return as after a success.
C16_ImaginaryResidualSurfaced ==
    (last.op = "gdf_k2gamma" /\ last.arg.gdf \in {"ndarray", "GDF"}) =>
      /\ (last.err = "none" /\ last.ret.dtype = "float")
           <=> ~ResidualAtOrAboveTol
      /\ ResidualAtOrAboveTol =>
           \/ last.err # "none"
           \/ last.ret.log \cap {"warning", "error", "critical"} # {}

\* j3c_k[:,j,:,i,:] is the conjugate transpose of j3c_k[:,i,:,j,:].
HermitianPairs(J, nk) ==
    \A t \in J3cKIndex(nk) :
        J[<<t[3], t[4], t[1], t[2]>>] = CConj(J[t])

\* The ordered pair and the slot of an addition: the transposed block of
\* (i, j) stands for the pair (j, i).
Contribution(p) ==
    IF p.transposed THEN <<p.j, p.i, p.slot>> ELSE <<p.i, p.j, p.slot>>

\* Every ordered pair is added once, to kconserv[i,j], and nothing else is.
EachPairOnce(adds, nk) ==
    /\ Len(adds) = nk * nk
    /\ \A i \in KIdx(nk), j \in KIdx(nk) :
         Cardinality({n \in 1..Len(adds) :
                        Contribution(adds[n]) = <<i, j, kconserv(nk, i, j)>>}) = 1

\* Two calls returned the same array.
SameTensor(r1, r2) == r1.j3c = r2.j3c /\ r1.dtype = r2.dtype

\* C17: for j3c_k with the Hermitian pair relation the half loop
\* (use_kpts_sym=True) returns the tensor of the full loop
\* (use_kpts_sym=False); in the half loop every ordered pair (i, j) is added
\* exactly once, to the slot kconserv[i,j], diagonal pairs included.
C17_HalfLoopEqualsFullLoop ==
    (Unfolded /\ last.arg.use_kpts_sym
       /\ HermitianPairs(last.arg.j3c_k, last.arg.nk)) =>
      /\ SameTensor(last.ret,
                    gdf_k2gamma([type |-> "ndarray", blocks |-> last.arg.j3c_k],
                                last.arg.nk, last.arg.compact, FALSE,
                                last.arg.imag_tol))
      /\ EachPairOnce(Additions(last.arg.nk, TRUE), last.arg.nk)

\* C17 happens: integrals on four k-points with the pair relation and with
\* complex blocks were unfolded by the half loop into a complex tensor.
C17_Witness ==
    /\ Unfolded /\ last.arg.use_kpts_sym /\ last.arg.nk = 4
    /\ HermitianPairs(last.arg.j3c_k, last.arg.nk)
    /\ MaxImag(last.arg.j3c_k) > 0
    /\ last.ret.dtype = "complex"


\* C16 happens: the unfolded integrals had an imaginary part below the
\* tolerance, which was discarded.
C16_SmallResidualDiscarded ==
    /\ Unfolded /\ last.max_imag > 0 /\ ~ResidualAtOrAboveTol
    /\ last.ret.dtype = "float"

\* C16 fails: a residual above the tolerance came back as a complex tensor
\* with nothing above the debug and info levels in the log.
C16_LargeResidualReturned ==
    /\ Unfolded /\ last.arg.imag_tol = DEFAULT_IMAG_TOL
    /\ last.max_imag > last.arg.nk * DEFAULT_IMAG_TOL
    /\ last.ret.dtype = "complex"

\* The half loop and the full loop differ on integrals without the relation.
C17_RelationNeeded ==
    /\ Unfolded /\ last.arg.use_kpts_sym
    /\ ~HermitianPairs(last.arg.j3c_k, last.arg.nk)
    /\ last.ret.j3c # gdf_k2gamma([type |-> "ndarray",
                                   blocks |-> last.arg.j3c_k], last.arg.nk,
                                  last.arg.compact, FALSE,
                                  last.arg.imag_tol).j3c

\* The steps of a run() in the order of the code: those of run() itself, the
\* call of run_solver, the solver's kernel, the local projection of its
\* amplitudes and the storing of e_corr_full, converged and e_corr.
StepOrder ==
    RunOrder \o <<"run_solver", "kernel", "get_local_amplitudes", "bookkeeping">>

StepPosition(step) == CHOOSE i \in 1..Len(StepOrder) : StepOrder[i] = step

Took(steps, step) == \E i \in 1..Len(steps) : steps[i] = step

\* C21: the steps a run() takes are steps of the fixed order DMET bath,
\* diagonalization of the cluster density matrix, occupied bath, virtual
\* bath, canonicalization, occupation check, assembly of the index lists,
\* solver dispatch, local projection, bookkeeping, each at most once and in
\* that order; run_solver is entered only after all seven earlier steps, with
\* a diagonalization within tolerance and orbitals that pass the occupation
\* check; a run() that does not enter it ended in the error of an earlier
\* step; the bookkeeping is the last step of exactly the runs that return.
C21_StepsInFixedOrder ==
    last.op = "run" =>
      LET steps == last.steps
          new == cl[last.c]
      IN /\ \A i \in 1..Len(steps) : Took(StepOrder, steps[i])
         /\ \A i \in 1..(Len(steps) - 1) :
               StepPosition(steps[i]) < StepPosition(steps[i + 1])
         /\ Len(steps) >= 2 /\ SubSeq(steps, 1, 2) = SubSeq(RunOrder, 1, 2)
         /\ Took(steps, "run_solver") =>
               /\ SubSeq(steps, 1, Len(RunOrder)) = RunOrder
               /\ ClusterDmClose(new.C_occclst \o new.C_virclst, new.dmet_bath_tol)
               /\ OccWithin(new, new.C_occenv \o new.C_occact, 2 * Unit)
               /\ OccWithin(new, new.C_viract \o new.C_virenv, 0)
         /\ ~Took(steps, "run_solver") =>
               /\ last.err \in {"RuntimeError", "AssertionError"}
               /\ ~last.kernel.ran
         /\ last.kernel.ran => Took(steps, "kernel")
         /\ Took(steps, "kernel") => Took(steps, "run_solver")
         /\ Took(steps, "bookkeeping") <=> last.err = "none"
         /\ last.err = "none" => steps[Len(steps)] = "bookkeeping"

C21_Witness ==
    /\ last.op = "run"
    /\ last.err = "none"
    /\ last.kernel.ran
    /\ last.steps = StepOrder
    /\ cl[last.c].iteration = 2

\* C22: a run or run_solver call on a cluster with maxiter > 1 transforms
\* integrals only while the cluster's cache is empty and leaves the cache
\* holding the integrals it made, so that no later call transforms again; a
\* call that finds the cache filled hands the cached integrals to the solver
\* and keeps them.  With maxiter <= 1 the cache stays empty and every solve
\* transforms.
C22_TransformedOncePerCluster ==
    [][IsCall' =>
        LET c == last'.c
        IN IF cl[c].maxiter > 1
           THEN /\ last'.solve.ao2mo =>
                     /\ cl[c].eris = NoEris
                     /\ cl'[c].eris # NoEris
                     /\ cl'[c].eris = last'.solve.eris
                /\ cl[c].eris # NoEris =>
                     /\ cl'[c].eris = cl[c].eris
                     /\ last'.kernel.ran => last'.solve.eris = cl[c].eris
           ELSE /\ cl[c].eris = NoEris
                /\ cl'[c].eris = NoEris
                /\ last'.kernel.ran => last'.solve.ao2mo]_vars

\* The same, of the calls that do not end in the NotImplementedError of the
\* CISD branch with nelectron_target
C22_ExceptUnimplementedCISD ==
    [][IsCall' /\ last'.err # "NotImplementedError" =>
        LET c == last'.c
        IN IF cl[c].maxiter > 1
           THEN /\ last'.solve.ao2mo =>
                     /\ cl[c].eris = NoEris
                     /\ cl'[c].eris # NoEris
                     /\ cl'[c].eris = last'.solve.eris
                /\ cl[c].eris # NoEris =>
                     /\ cl'[c].eris = cl[c].eris
                     /\ last'.kernel.ran => last'.solve.eris = cl[c].eris
           ELSE /\ cl[c].eris = NoEris
                /\ cl'[c].eris = NoEris
                /\ last'.kernel.ran => last'.solve.ao2mo]_vars

(***************************************************************************)
(* SpecTailor: the coupled-bath tailoring function of the CCSD branch,     *)
(* called once on amplitudes T1, T2 with a list of clusters (base.clusters)*)
(* that holds the cluster itself.  Every cluster has one active occupied   *)
(* and one active virtual orbital, so that T1, T2, the rotations Ro, Rv    *)
(* and the projector Px are arrays of one element, written as that         *)
(* element.  A cluster of the list is seen as its id, its amplitudes store *)
(* and the numbers Ro = x.C_occact.T S self.C_occact, Rv = x.C_viract.T S  *)
(* self.C_viract and Px = x.get_local_projector(x.C_occact).               *)
(***************************************************************************)
\* amplitudes_C2T (util.py): T1 = C1, T2 = C2 - C1 C1
amplitudes_C2T(C1, C2) == [T1 |-> C1, T2 |-> C2 - C1 * C1]

\* Cluster.transform_amplitudes(Ro, Rv, T1, T2)
transform_amplitudes(Ro, Rv, T1, T2) ==
    [T1 |-> Ro * Rv * T1, T2 |-> Ro * Ro * Rv * Rv * T2]

\* store[key] of an amplitudes store
Stored_at(store, key) == (CHOOSE p \in store : p[1] = key)[2]

\* The body of the loop for a cluster x with amplitudes: the projected
\* difference, transformed back to the basis of self
TailorTerm(x, T1, T2) ==
    LET Tx == amplitudes_C2T(Stored_at(x.amplitudes, "C1"),
                             Stored_at(x.amplitudes, "C2"))
        dc == transform_amplitudes(x.Ro, x.Rv, T1, T2)
        dT1x == Tx.T1 - dc.T1
        dT2x == Tx.T2 - dc.T2
    IN transform_amplitudes(x.Ro, x.Rv, x.Px * dT1x, x.Px * dT2x)

\* The loop body adding to T1, T2 themselves (T1out = T1 without the copy)
TailorStep_inplace(self, x, st) ==
    IF x.id = self.id \/ x.amplitudes = {} THEN st
    ELSE LET p == TailorTerm(x, st.T1, st.T2)
         IN [T1 |-> st.T1 + p.T1, T2 |-> st.T2 + p.T2,
             T1out |-> st.T1out + p.T1, T2out |-> st.T2out + p.T2]

\* One pass of "for x in self.loop_clusters(exclude_self=True)": self is
\* skipped by loop_clusters, a cluster with an empty store by "continue"
TailorStep(self, x, st) ==
    IF x.id = self.id \/ x.amplitudes = {} THEN st
    ELSE LET p == TailorTerm(x, st.T1, st.T2)
         IN [st EXCEPT !.T1out = @ + p.T1, !.T2out = @ + p.T2]

RECURSIVE TailorLoop(_, _, _, _)
TailorLoop(self, clusters, n, st) ==
    IF n = 0 THEN st
    ELSE TailorStep(self, clusters[n], TailorLoop(self, clusters, n - 1, st))

\* tailorfunc(T1, T2) of the coupled bath: T1out, T2out start as copies of
\* the arguments; the result holds the returned arrays and the arguments as
\* they are after the call.
coupled_tailorfunc(self, clusters, T1, T2) ==
    TailorLoop(self, clusters, Len(clusters),
               [T1 |-> T1, T2 |-> T2, T1out |-> T1, T2out |-> T2])

\* Most clusters on the list of the base.
MaxClusters == 3

\* A cluster as the tailoring function sees it
ClusterViews ==
    [id : 1..MaxClusters,
     amplitudes : {{}, {<<"C1", 2>>, <<"C2", 6>>}, {<<"C1", 4>>, <<"C2", 6>>}},
     Ro : {1, 2}, Rv : {1}, Px : {2}]

\* Lists of clusters with different ids that hold cluster 1
ClusterLists ==
    {l \in UNION {[1..n -> ClusterViews] : n \in 1..MaxClusters} :
        /\ \A i, j \in 1..Len(l) : l[i].id = l[j].id => i = j
        /\ \E i \in 1..Len(l) : l[i].id = 1}

Tailor(c) ==
    /\ cl[c].exists
    /\ cl[c].coupled_bath
    /\ \E clusters \in ClusterLists, T1 \in {0, 2}, T2 \in {4} :
         LET r == coupled_tailorfunc(cl[c], clusters, T1, T2)
         IN /\ UNCHANGED <<cl, mf, base>>
            /\ last' = [op |-> "tailorfunc", c |-> c,
                        arg |-> [clusters |-> clusters, T1 |-> T1, T2 |-> T2],
                        err |-> "none", converged |-> FALSE, e_corr |-> 0,
                        reads |-> {}, kernel |-> NoKernel, trials |-> NoTrials,
                        ret |-> r]

InitTailor ==
    /\ cl = [c \in ClusterIds |->
               IF c = 1 THEN Built(c, 1, "CCSD", "mp2-natorb", Kwargs(2, TRUE))
               ELSE NoCluster]
    /\ last = NoCall
    /\ mf = MeanField
    /\ base = BaseObject

NextTailor == NoCallYet /\ Tailor(1)

SpecTailor == InitTailor /\ [][NextTailor]_vars

\* The clusters of the list that contribute: not the cluster itself, and a
\* store that is not empty
Contributors(self, clusters) ==
    {i \in 1..Len(clusters) :
        clusters[i].id # self.id /\ clusters[i].amplitudes # {}}

RECURSIVE SumOver(_, _)
SumOver(f, I) ==
    IF I = {} THEN 0
    ELSE LET i == CHOOSE j \in I : TRUE IN f[i] + SumOver(f, I \ {i})

\* C23: the coupled-bath tailoring function returns the input amplitudes plus
\* the projected difference term of every other cluster whose amplitudes
\* store is not empty, each term computed from the input amplitudes; the
\* cluster itself and clusters with an empty store add nothing, so that the
\* output equals the input when no other cluster has amplitudes; the input
\* T1, T2 are the same after the call.
C23_TailoredByOtherClusters ==
    last.op = "tailorfunc" =>
      LET self == cl[last.c]
          a == last.arg
          I == Contributors(self, a.clusters)
          term == [i \in 1..Len(a.clusters) |->
                     IF i \in I THEN TailorTerm(a.clusters[i], a.T1, a.T2)
                     ELSE [T1 |-> 0, T2 |-> 0]]
      IN /\ last.ret.T1out = a.T1 + SumOver([i \in I |-> term[i].T1], I)
         /\ last.ret.T2out = a.T2 + SumOver([i \in I |-> term[i].T2], I)
         /\ I = {} => last.ret.T1out = a.T1 /\ last.ret.T2out = a.T2
         /\ last.ret.T1 = a.T1
         /\ last.ret.T2 = a.T2

\* Two other clusters contribute, a third one has an empty store or is the
\* cluster itself with a filled store, and the output differs from the input
C23_Witness ==
    /\ last.op = "tailorfunc"
    /\ Len(last.arg.clusters) = 3
    /\ Cardinality(Contributors(cl[last.c], last.arg.clusters)) = 2
    /\ \E i \in 1..3 : /\ last.arg.clusters[i].id = last.c
                        /\ last.arg.clusters[i].amplitudes # {}
    /\ last.ret.T1out # last.arg.T1
    /\ last.ret.T2out # last.arg.T2

\* No other cluster has amplitudes
C23_WitnessEmpty ==
    /\ last.op = "tailorfunc"
    /\ Len(last.arg.clusters) = 3
    /\ Contributors(cl[last.c], last.arg.clusters) = {}
    /\ last.ret.T1out = 2

\* base.T1 as a number: the element of the array, 0 while it is None
Accumulated(T) == IF T = NoArray THEN 0 ELSE T[1]

\* C24: base.T1 and base.T2 change only in a run or run_solver call in which
\* the CCSD solver ran on a cluster with maxiter > 1; such a call leaves them
\* as arrays holding their former value (zero if they were None) plus the
\* projected amplitudes of this solve, added once; every other step (another
\* solver, no solver, maxiter <= 1, a call that raised, the restoration of
\* defaults) leaves them as they are; two contributions give the same sum in
\* either order.
C24_AccumulatedOncePerCCSDSolve ==
    [][/\ IF /\ IsCall'
              /\ last'.kernel.ran
              /\ last'.kernel.solver = "CCSD"
              /\ cl[last'.c].maxiter > 1
           THEN /\ base'.T1 = <<Accumulated(base.T1) + last'.kernel.pT1>>
                /\ base'.T2 = <<(IF base.T1 = NoArray THEN 0 ELSE base.T2[1])
                                  + last'.kernel.pT2>>
           ELSE /\ base'.T1 = base.T1
                /\ base'.T2 = base.T2
       /\ \A o1, o2 \in SolveOutcomes :
            \A c1, c2 \in {c \in ClusterIds : cl[c].exists /\ cl[c].maxiter > 1} :
              Accumulate(cl[c2], Accumulate(cl[c1], base, o1), o2)
                = Accumulate(cl[c1], Accumulate(cl[c2], base, o2), o1)]_vars

\* The arrays, None when the second cluster had run with MP2, are created by
\* a CCSD solve with maxiter > 1 and added to by a later one
C24_Witness ==
    /\ IsCall
    /\ last.kernel.ran
    /\ last.kernel.solver = "CCSD"
    /\ cl[last.c].maxiter > 1
    /\ last.c = 1
    /\ last.kernel.pT1 = 3
    /\ cl[2].eris.made_by = "MP2"
    /\ base.T1 = <<4>>
    /\ base.T2 = <<4>>

\* The arrays are still None after a CCSD solve with maxiter 1
C24_WitnessNotWritten ==
    /\ IsCall
    /\ last.kernel.ran
    /\ last.kernel.solver = "CCSD"
    /\ cl[last.c].maxiter = 1
    /\ base.T1 = NoArray

\* C25: a tailoring function is installed only on the CCSD solver and only if
\* base.tccT1 is not None or the cluster has coupled_bath; the one in effect
\* during a CCSD solve is the coupled-bath variant if coupled_bath is set,
\* also when base.tccT1 is not None, the global variant if only base.tccT1
\* is given, and none otherwise.
C25_OneTailorfuncInEffect ==
    IsCall =>
      LET self == cl[last.c]
          t == last.solve.tailorfunc
          ccsd == last.kernel.ran /\ last.kernel.solver = "CCSD"
      IN /\ t \in {NoneVal, "global", "coupled"}
         /\ t # NoneVal =>
               ccsd /\ (base.tccT1 # NoArray \/ self.coupled_bath)
         /\ ccsd /\ self.coupled_bath => t = "coupled"
         /\ ccsd /\ ~self.coupled_bath /\ base.tccT1 # NoArray => t = "global"
         /\ ccsd /\ ~self.coupled_bath /\ base.tccT1 = NoArray => t = NoneVal

\* Both conditions hold and the coupled-bath variant is in effect
C25_Witness ==
    /\ IsCall
    /\ last.kernel.ran
    /\ last.kernel.solver = "CCSD"
    /\ cl[last.c].coupled_bath
    /\ base.tccT1 # NoArray
    /\ last.solve.tailorfunc = "coupled"

\* Only the reference amplitudes are given and the global variant is in effect
C25_WitnessGlobal ==
    /\ IsCall
    /\ last.kernel.ran
    /\ ~cl[last.c].coupled_bath
    /\ last.solve.tailorfunc = "global"

\* C26: k2gamma called on a k-point mean-field with a GDF and unfold_j3c =
\* True returns a supercell mean-field with e_tot = ncells * mf.e_tot, the
\* converged flag of mf and the integrals unfolded by k2gamma_3c2e as its
\* density-fitting integrals; k2gamma_3c2e raises nothing but the
\* AssertionError of its own two checks.
C26_SupercellMeanFieldWithUnfoldedIntegrals ==
    /\ (last.op = "k2gamma" /\ last.arg.with_df = "GDF" /\ last.arg.unfold_j3c) =>
          /\ last.err = "none"
          /\ last.ret # NoneVal
          /\ last.ret.e_tot = last.arg.nk * last.arg.e_tot
          /\ last.ret.converged = last.arg.converged
          /\ last.ret.cderi # NoneVal
    /\ last.op = "k2gamma_3c2e" => last.err \in {"none", "AssertionError"}

\* Without the unfolding k2gamma returns the supercell mean-field with the
\* scaled energy and the copied flag
C26_WithoutUnfolding ==
    (last.op = "k2gamma" /\ ~(last.arg.with_df = "GDF" /\ last.arg.unfold_j3c)) =>
        /\ last.err = "none"
        /\ last.ret.e_tot = last.arg.nk * last.arg.e_tot
        /\ last.ret.converged = last.arg.converged
        /\ last.ret.cderi = NoneVal

\* With it the call ends in the AttributeError of k2gamma_3c2e
C26_UnfoldingRaises ==
    (last.op = "k2gamma" /\ last.arg.with_df = "GDF" /\ last.arg.unfold_j3c) =>
        last.err = "AttributeError" /\ last.ret = NoneVal

\* The solver names run_solver has a branch for
SolverNames == {"MP2", "CCSD", "CISD", "FCI-spin0", "FCI-spin1"}

\* The active space the last call of run_solver worked on holds one orbital
OneActiveOrbital ==
    IF cl[last.c].active = NoneSeq THEN FALSE ELSE Len(cl[last.c].active) = 1

\* The result of a call that found no solver to run
NoSolverResult ==
    /\ ~last.kernel.ran
    /\ last.err = "none"
    /\ last.converged /\ last.e_corr = 0
    /\ cl[last.c].converged
    /\ cl[last.c].e_corr = 0
    /\ cl[last.c].e_corr_full = 0

\* C27 as stated: with an active space of exactly one orbital run_solver runs
\* no solver and returns converged = True, e_corr = 0, e_corr_full = 0,
\* whatever solver name was requested; with a requested name outside the
\* five solver names it raises ValueError exactly when the active space does
\* not hold exactly one orbital.
C27_UnknownSolverUnlessOneOrbital ==
    (IsCall /\ Took(last.steps, "run_solver")) =>
        /\ OneActiveOrbital => NoSolverResult
        /\ (last.arg # NoneVal /\ last.arg \notin SolverNames) =>
              (last.err = "ValueError: Unknown solver" <=> ~OneActiveOrbital)

\* C27 amended: the same, with the ValueError raised exactly when an active
\* space has been assigned and does not hold exactly one orbital; without an
\* active space (run_solver before any run) the call raises TypeError.
C27_UnknownSolverOnAssignedActiveSpace ==
    (IsCall /\ Took(last.steps, "run_solver")) =>
        /\ OneActiveOrbital => NoSolverResult
        /\ (last.arg # NoneVal /\ last.arg \notin SolverNames) =>
              /\ last.err = "ValueError: Unknown solver"
                    <=> (cl[last.c].active # NoneSeq /\ ~OneActiveOrbital)
              /\ cl[last.c].active = NoneSeq => last.err = "TypeError"

\* An unknown solver name requested on one active orbital: no error
C27_Witness ==
    /\ last.op = "run_solver"
    /\ last.arg = "BOGUS"
    /\ OneActiveOrbital
    /\ last.err = "none"
    /\ cl[last.c].iteration = 2

\* The same name on a larger active space
C27_WitnessRaised ==
    /\ last.op = "run_solver"
    /\ last.arg = "BOGUS"
    /\ cl[last.c].active # NoneSeq
    /\ ~OneActiveOrbital
    /\ last.err = "ValueError: Unknown solver"

FCISolvers == {"FCI-spin0", "FCI-spin1"}

\* C28: a run or run_solver call leaves the cluster's solver_options as they
\* were, and a full-CI solve applies the options the cluster holds, so that
\* every full-CI solve of a cluster applies the same options, fix_spin
\* included.
C28_SolverOptionsUnchanged ==
    [][IsCall' =>
        LET c == last'.c
        IN /\ cl'[c].solver_options = cl[c].solver_options
           /\ (last'.kernel.ran /\ last'.kernel.solver \in FCISolvers) =>
                 last'.solve.options = cl'[c].solver_options]_vars

\* What the calls do to the options: a call that reaches the option code of
\* the full-CI branch removes fix_spin and keeps the other options; every
\* other call keeps them all.
C28_FixSpinRemoved ==
    [][IsCall' =>
        LET c == last'.c
        IN /\ cl'[c].solver_options \in
                 {cl[c].solver_options, cl[c].solver_options \ {"fix_spin"}}
           /\ (last'.kernel.ran /\ last'.kernel.solver \in FCISolvers) =>
                 /\ last'.solve.options = cl[c].solver_options
                 /\ cl'[c].solver_options = cl[c].solver_options \ {"fix_spin"}]_vars

\* A second full-CI solve of a cluster constructed with fix_spin that applied
\* options without it
C28_SecondSolveWithoutFixSpin ==
    /\ IsCall
    /\ last.kernel.ran
    /\ last.kernel.solver \in FCISolvers
    /\ cl[last.c].iteration = 2
    /\ last.solve.options = {"max_cycle"}

\* The object whose ao2mo makes the integrals of a solver: the solver's own,
\* or the CISD object the full-CI branch creates
TransformedBy(solver) == IF solver \in FCISolvers THEN "CISD" ELSE solver

\* C29: on a cluster with maxiter > 1, integrals taken from the cache are
\* handed only to a solver of the kind that made them and only for the
\* frozen and active orbitals they were made for.
C29_CachedIntegralsMatchSolve ==
    (IsCall /\ last.kernel.ran /\ cl[last.c].maxiter > 1 /\ ~last.solve.ao2mo) =>
        /\ last.solve.eris.made_by = TransformedBy(last.kernel.solver)
        /\ last.solve.eris.frozen = cl[last.c].frozen

\* Integrals made for one solver handed from the cache to another
C29_OtherSolversIntegrals ==
    /\ IsCall /\ last.kernel.ran /\ ~last.solve.ao2mo
    /\ last.solve.eris.made_by = "CCSD"
    /\ last.kernel.solver = "MP2"

\* Integrals made for the orbitals of an earlier run handed from the cache to
\* the solver of a run whose frozen orbitals differ
C29_OtherOrbitalsIntegrals ==
    /\ last.op = "run" /\ last.kernel.ran /\ ~last.solve.ao2mo
    /\ last.solve.eris.made_by = TransformedBy(last.kernel.solver)
    /\ last.solve.eris.frozen # cl[last.c].frozen

\* C30: the iteration counter is 0 on a constructed cluster and after
\* set_default_attributes, and every run_solver invocation that started, by
\* itself or from run(), adds one to it, whether it returned or raised, so
\* that the counter is the number of invocations started since; a run_solver
\* that raised leaves converged, e_corr, e_corr_full, the amplitudes store and
\* the eris cache as they were.
C30_IterationCountsStartedSolves ==
    [][/\ last.op = "none" => cl[1].iteration = 0
       /\ \A c \in ClusterIds :
            LET started == IsCall' /\ last'.c = c /\ Took(last'.steps, "run_solver")
            IN /\ cl'[c].iteration =
                    IF started THEN cl[c].iteration + 1
                    ELSE IF last'.op = "set_default_attributes" /\ last'.c = c
                    THEN 0
                    ELSE cl[c].iteration
               /\ (started /\ last'.err # "none") =>
                    /\ cl'[c].converged = cl[c].converged
                    /\ cl'[c].e_corr = cl[c].e_corr
                    /\ cl'[c].e_corr_full = cl[c].e_corr_full
                    /\ cl'[c].amplitudes = cl[c].amplitudes
                    /\ cl'[c].eris = cl[c].eris]_vars

\* A second invocation that raised on a cluster whose first solve converged
\* and filled the cache
C30_Witness ==
    /\ last.op = "run_solver"
    /\ last.err = "ValueError: Unknown solver"
    /\ cl[last.c].iteration = 2
    /\ cl[last.c].converged
    /\ cl[last.c].e_corr # 0
    /\ cl[last.c].eris # NoEris

\* The defaults restored after a full-CI solve: the counter is back at zero
C30_WitnessRestored ==
    /\ last.op = "set_default_attributes"
    /\ cl[1].iteration = 0
    /\ cl[1].solver_options = {"max_cycle"}

====
